---- MODULE Spec2Model ----
(***************************************************************************)
(* Model of the Sustainability Measurement Agent: the run orchestrator of  *)
(* sma/sma.py (SustainabilityMeasurementAgent) with the observer registry, *)
(* the module lookup and the report hand-over of observe_once.             *)
(***************************************************************************)
EXTENDS Integers, Sequences, FiniteSets, TLC

\* ------------------------------------------------------------------ bounds
MaxRuns == 2
MaxObservers == 1
MaxElapsed == 1
MaxStoreOps == 3
MaxAgents == 2
MaxRegistered == 1

\* ------------------------------------------------------ values of the model
None == "None"

\* a datetime is a count of clock ticks; strftime("%Y_%m_%d_%H_%M_%S") keeps
\* the whole seconds of it
TicksPerSecond == 2

\* sma/model.py SMAObserver: the methods every subclass of the protocol has
ProtocolMethods ==
    {"onSetup", "onSessionStart", "onRunStart", "onLeftWindowStart",
     "onLeftWindowEnd", "onTreatmentStart", "onTreatmentEnd",
     "onRightWindowStart", "onRightWindowEnd", "onReport", "onRunEnd",
     "onSessionEnd", "onTeardown"}

\* main.py SimpleLogger(SMAObserver): the protocol plus four more names
SimpleLoggerMethods ==
    ProtocolMethods \cup {"onLeftStarted", "onStart", "onEnd", "onRightFinished"}

\* an observer written against the names run() notifies (no base class)
DuckMethods ==
    {"onLeftStart", "onLeftEnd", "onTreatmentStart", "onTreatmentEnd",
     "onRightStart", "onRightEnd", "onReport", "onRunEnd"}

\* kinds of module instance the loader can produce
\*   telelocust  : TelelocustSmaModule, trigger(self, kwargs)
\*   exporter    : PrometheusenvironmentexporterSmaModule, no trigger
\*   triggerable : a module whose trigger has the Triggerable signature
ModuleKinds == {"telelocust", "exporter", "triggerable"}

ModuleMethods(kind) == ProtocolMethods

\* hasattr(md, 'trigger') and callable(getattr(md, 'trigger'))
HasCallableTrigger(kind) == kind \in {"telelocust", "triggerable"}

\* module.trigger() binds no argument: a trigger(self, kwargs) cannot be called
TriggerCallBinds(kind) == kind = "triggerable"

\* what a treatment driver can return: None, or a metadata dict
DriverReturns == {None, "{users:10}"}

\* ObservationWindow(left, right, duration)
Windows ==
    {[left |-> 1, right |-> 1, duration |-> 2],
     [left |-> 0, right |-> 2, duration |-> 1]}

\* observation.window = NoWindow (no window configured)
NoWindow == [left |-> -1, right |-> -1, duration |-> -1]

Modes == {"timer", "trigger", "module", "continuous"}

Hashes == {"a1b2c3d4", "e5f6a7b8"}

Measurements == {"cpu", "power"}

\* the module configurations the loader is given (moduleId -> kind)
NoModules == [m \in {} |-> "exporter"]
ModuleConfigs ==
    {NoModules,
     [m \in {"loadgen"} |-> "telelocust"],
     [m \in {"loadgen"} |-> "triggerable"],
     [m \in {"env"} |-> "exporter"]}

ModuleTriggers == {None, "loadgen", "env"}

UserObserverKinds == {"SimpleLogger", "duck"}

KindMethods(kind) ==
    IF kind = "SimpleLogger" THEN SimpleLoggerMethods
    ELSE IF kind = "duck" THEN DuckMethods
    ELSE ModuleMethods(kind)

\* ------------------------------------------------------------------- state
VARIABLES
    mode,            \* config.observation.mode
    window,          \* config.observation.window
    module_trigger,  \* config.observation.module_trigger
    format,          \* config.report.format
    location,        \* config.report.location, the template of the report path
    config_file,     \* config.config_file names a file that exists
    module_config,   \* config.modules: moduleId -> name under its 'module' key
    meta_session,    \* the name of the session given to __init__ as meta
    modules,         \* self.modules: moduleId -> module instance (its kind)
    observers,       \* self.observers: sequence of observer kinds
    session,         \* self.session
    now,             \* the wall clock read by datetime.datetime.now()
    pc,              \* position of the thread of control inside run()
    trigger,         \* the trigger argument of the run() in progress
    start_time, treatment_start, treatment_end, end_time,
    run_hash, trigger_meta,
    run_data,        \* the SMARun assembled at line 219
    rep,             \* the Report built by observe_once
    runs,            \* number of run() calls so far
    outcome,         \* how the last run() ended: none / returned / raised
    error,           \* the exception the last run() raised
    trace,           \* what the last run() did that can be observed, in order
    slog,            \* the notifications made outside run(), in order
    ctx,             \* start_session: out (not called), body (inside the
                     \* with block), closed (the context manager has ended)
    disk,            \* the paths under the report root that the operations
                     \* of ReportIO have made or read: path -> what is there
    result,          \* the last operation of ReportIO and what it returned
    agents           \* the orchestrators constructed in this process, the
                     \* list object bound to the default of the observers
                     \* parameter of __init__, and the last notification

cfgvars == <<mode, window, module_trigger, format, modules, location,
             config_file, module_config, meta_session, disk, result,
             agents>>
\* what no step of run() changes
fixed == <<mode, window, module_trigger, format, modules, location,
           config_file, module_config, meta_session, disk, result,
           agents, observers, session, slog, ctx>>
locals == <<start_time, treatment_start, treatment_end, end_time,
            run_hash, trigger_meta, run_data, rep>>
vars == <<mode, window, module_trigger, format, modules, observers, session,
          now, pc, trigger, start_time, treatment_start, treatment_end,
          end_time, run_hash, trigger_meta, run_data, rep, runs, outcome,
          error, trace, slog, location, config_file, module_config,
          meta_session, ctx, disk, result, agents>>

\* ------------------------------------------------------------- sma/model.py
\* SMARun(startTime, endTime, treatment_start, treatment_end, runHash, user_data)
SMARun(st, et, ts, te, h, ud) ==
    [startTime |-> st, endTime |-> et, treatment_start |-> ts,
     treatment_end |-> te, runHash |-> h, user_data |-> ud]

NoRun == SMARun(-1, -1, -1, -1, None, None)

\* ReportMetadata(session, run)
ReportMetadata(s, r) == [session |-> s, run |-> r]

\* Report(metadata, config, data): data maps the names of the measurements
\* observed to their tables
Report(md, d) == [metadata |-> md, data |-> d]

\* a DataFrame, as far as the report store looks at it: len(df) and
\* list(df.columns)
Table(n, cols) == [rows |-> n, columns |-> cols]

NoData == [m \in {} |-> Table(0, <<>>)]

NoReport == Report(ReportMetadata(None, NoRun), NoData)

\* ------------------------------------------------------------------- trace
\* one entry per observable step: k is notify / deliver / raise / sleep /
\* driver / report / query / write / persist; r is the index of the run()
\* it belongs to
Entry(k, ev, r) ==
    [k |-> k, ev |-> ev, obs |-> 0, r |-> r, n |-> 0,
     run |-> NoRun, rep |-> NoReport, ret |-> None]


\* ---------------------------------------------- sma/sma.py notify_observers
\* the observers (by position) that have a callable attribute named ev
Implementers(ev) ==
    {i \in 1..Len(observers) : ev \in KindMethods(observers[i])}

\* Reached where the loop ends at the first observer that lacks the method
Reached_stopAtNonImplementer(ev, raiser) ==
    {i \in Implementers(ev) :
        /\ raiser = 0 \/ i <= raiser
        /\ \A j \in 1..i : j \in Implementers(ev)}

\* the observers a notification reaches when observer `raiser` raises
\* (raiser = 0: nobody raises): the loop stops at the raising observer
Reached(ev, raiser) ==
    {i \in Implementers(ev) : raiser = 0 \/ i <= raiser}

\* the positions of Reached(ev, raiser), in registration order
ReachedSeq(ev, raiser) ==
    SelectSeq([i \in 1..Len(observers) |-> i],
              LAMBDA i : i \in Reached(ev, raiser))

\* what notify_observers(ev, **payload) does: one notify entry, then one
\* deliver entry per method call, then a raise entry if a method raised.
\* base is the entry carrying the event name, the run index and the payload
NotifyObservers(base, raiser) ==
    LET order == ReachedSeq(base.ev, raiser)
    IN  <<[base EXCEPT !.k = "notify"]>>
        \o [j \in 1..Len(order) |->
               [base EXCEPT !.k = "deliver", !.obs = order[j]]]
        \o (IF raiser = 0 THEN <<>>
            ELSE <<[base EXCEPT !.k = "raise", !.obs = raiser]>>)

\* Raisers where a notification can raise although nobody is registered
Raisers_emptyRegistryRaises(ev) ==
    IF observers = <<>> THEN {0, 1} ELSE {0} \cup Implementers(ev)

\* the choices of who raises while handling ev: nobody, or an implementer
Raisers(ev) == {0} \cup Implementers(ev)

\* ------------------------------------------------------ sma/sma.py __init__
\* a config.modules entry that has no 'module' key
NoKey == ""

\* a 'module' name for which no package modules.<name>.main exists
NoSuchModule == "nosuch"

\* load_modules: importlib.import_module raises for an unknown name; an
\* entry without the 'module' key is logged and passed over
LoadError(cfg) ==
    IF \E id \in DOMAIN cfg : cfg[id] \notin ModuleKinds \cup {NoKey}
    THEN "ModuleNotFoundError" ELSE "ok"

\* load_modules: self.modules after the loop
LoadedModules(cfg) ==
    [id \in {i \in DOMAIN cfg : cfg[i] # NoKey} |-> cfg[id]]

\* config.report.location split at os.path.sep, every segment a sequence of
\* literals and ${placeholders}; the default of ReportConfig,
\* "reports/${startTime}_${runHash}/"
DefaultLocation ==
    <<(<<"reports">>), (<<"${startTime}", "_", "${runHash}">>), (<<>>)>>

\* "../escape/${runHash}"
EscapeLocation == <<(<<"..">>), (<<"escape">>), (<<"${runHash}">>)>>

\* "/srv/reports/${runHash}"
AbsoluteLocation == <<(<<>>), (<<"srv">>), (<<"reports">>), (<<"${runHash}">>)>>

\* "reports/${runHash}_${duration}"
DurationLocation ==
    <<(<<"reports">>), (<<"${runHash}", "_", "${duration}">>)>>

\* "reports/${session}/${runHash}"
SessionLocation == <<(<<"reports">>), (<<"${session}">>), (<<"${runHash}">>)>>

Locations ==
    {DefaultLocation, EscapeLocation, AbsoluteLocation, SessionLocation}

\* the session names given as meta
SessionNames == {"TestSession", ".."}

\* nothing below the report root so far
NoFiles == [p \in {} |-> 0]

\* no operation of ReportIO so far
NoResult ==
    [n |-> 0, op |-> None, at |-> <<>>, arg |-> None, fail |-> 0,
     err |-> None, decoder |-> None, reports |-> <<>>]

\* no orchestrator constructed so far: the default list of __init__ is the
\* empty list made when the function was defined
NoAgents ==
    [default |-> <<>>, made |-> <<>>, notified |-> [by |-> 0, to |-> <<>>]]

\* load_modules registers every module instance as an observer
LoadedObservers(mods) ==
    IF "loadgen" \in DOMAIN mods THEN <<mods["loadgen"]>>
    ELSE IF "env" \in DOMAIN mods THEN <<mods["env"]>>
    ELSE <<>>

\* the agent right after __init__ for the configuration chosen
InitAgent ==
    /\ LoadError(module_config) = "ok"
    /\ modules = LoadedModules(module_config)
    /\ observers = LoadedObservers(modules)
    /\ ctx = "out"
    /\ session = None
    /\ now = 0
    /\ pc = "idle"
    /\ trigger = None
    /\ start_time = -1 /\ treatment_start = -1
    /\ treatment_end = -1 /\ end_time = -1
    /\ run_hash = None
    /\ trigger_meta = None
    /\ run_data = NoRun
    /\ rep = NoReport
    /\ runs = 0
    /\ outcome = "none"
    /\ error = None
    /\ trace = <<>>
    /\ slog = <<>>
    /\ disk = NoFiles
    /\ result = NoResult
    /\ agents = NoAgents

Init ==
    /\ mode \in Modes
    /\ window \in Windows \cup {NoWindow}
    /\ format \in {"csv", "parquet"}
    /\ module_config \in ModuleConfigs
    /\ module_trigger \in (IF mode = "module" THEN ModuleTriggers ELSE {None})
    /\ location = DefaultLocation
    /\ config_file = TRUE
    /\ meta_session = "TestSession"
    /\ InitAgent

\* setup has not been called so far: slog holds at most calls of run()
NoSetupYet == \A i \in 1..Len(slog) : slog[i].k = "run"

\* register_sma_observer(observer)
RegisterObserver(kind) ==
    /\ pc = "idle"
    /\ session = None
    /\ runs = 0
    /\ Len(observers) < Len(LoadedObservers(modules)) + MaxObservers
    /\ observers' = Append(observers, kind)
    /\ UNCHANGED <<cfgvars, session, now, pc, trigger, locals, runs, outcome,
                   error, trace, slog, ctx>>

\* setup(session): notify onSetup, then store the session
Setup ==
    /\ pc = "idle"
    /\ session = None
    /\ NoSetupYet
    /\ ctx = "out"
    /\ \E raiser \in Raisers("onSetup") :
          /\ slog' = slog \o NotifyObservers(Entry("", "onSetup", runs), raiser)
          /\ session' = IF raiser = 0 THEN meta_session ELSE session
    /\ UNCHANGED <<cfgvars, observers, now, pc, trigger, locals, runs, outcome,
                   error, trace, ctx>>

\* ----------------------------------------------------------- sma/sma.py run
\* the exception run() ends with
Raise(e) ==
    /\ pc' = "idle"
    /\ outcome' = "raised"
    /\ error' = e

\* SessionCheck without the two tests of self.session
SessionCheck_noSessionTest ==
    IF window = NoWindow THEN "AttributeError:window.left" ELSE "ok"

\* lines 147-156: the session assertion, the window log line, the session test
SessionCheck ==
    IF session = None THEN "AssertionError:session"
    ELSE IF window = NoWindow THEN "AttributeError:window.left"
    ELSE IF session = None THEN "ValueError:session"
    ELSE "ok"

\* ModeCheck without the test of the trigger argument in trigger mode
ModeCheck_noTriggerTest(trig) ==
    IF mode \in {"timer", "trigger"} THEN "ok"
    ELSE IF mode = "module" THEN
        IF trig # None THEN "AssertionError:trigger_given"
        ELSE IF module_trigger \notin DOMAIN modules THEN "KeyError:module"
        ELSE IF ~HasCallableTrigger(modules[module_trigger])
             THEN "AssertionError:module_trigger"
        ELSE "ok"
    ELSE "ValueError:mode"

\* lines 159-171: the checks of the observation mode
ModeCheck(trig) ==
    IF mode = "timer" THEN
        IF window = NoWindow THEN "AssertionError:window" ELSE "ok"
    ELSE IF mode = "trigger" THEN
        IF trig = None THEN "ValueError:trigger" ELSE "ok"
    ELSE IF mode = "module" THEN
        IF trig # None THEN "AssertionError:trigger_given"
        ELSE IF module_trigger \notin DOMAIN modules THEN "KeyError:module"
        ELSE IF ~HasCallableTrigger(modules[module_trigger])
             THEN "AssertionError:module_trigger"
        ELSE "ok"
    ELSE "ValueError:mode"

RunChecks(trig) ==
    IF SessionCheck # "ok" THEN SessionCheck ELSE ModeCheck(trig)

\* datetime.datetime.now(): the clock advances while run() is blocked, in a
\* sleep or in the treatment driver
ClockReads == {now}

\* the ticks a trigger function can take
Elapsed == 0..MaxElapsed

\* run(trigger), lines 140-174: the checks, start_time and run_hash
RunCall(trig) ==
    /\ pc = "idle"
    /\ runs < MaxRuns
    /\ runs' = runs + 1
    /\ trigger' = trig
    /\ treatment_start' = -1 /\ treatment_end' = -1 /\ end_time' = -1
    /\ trigger_meta' = None
    /\ run_data' = NoRun
    /\ rep' = NoReport
    /\ trace' = <<>>
    /\ IF RunChecks(trig) # "ok"
       THEN /\ Raise(RunChecks(trig))
            /\ start_time' = -1
            /\ run_hash' = None
            /\ UNCHANGED now
       ELSE /\ \E t \in ClockReads : now' = t /\ start_time' = t
            /\ run_hash' \in Hashes
            /\ pc' = (IF window # NoWindow THEN "L177" ELSE "L183")
            /\ outcome' = "running"
            /\ error' = None
    /\ slog' = Append(slog, Entry("run", ctx, runs'))
    /\ UNCHANGED <<cfgvars, observers, session, ctx>>

\* NotifyStep where run() goes on after an observer raised
NotifyStep_continueAfterRaise(at, ev, next) ==
    /\ pc = at
    /\ \E raiser \in Raisers(ev) :
          /\ trace' = trace \o NotifyObservers(Entry("", ev, runs), raiser)
          /\ pc' = next
          /\ UNCHANGED <<outcome, error>>

\* a notification inside run(): on a raise the error leaves run()
NotifyStep(at, ev, next) ==
    /\ pc = at
    /\ \E raiser \in Raisers(ev) :
          /\ trace' = trace \o NotifyObservers(Entry("", ev, runs), raiser)
          /\ IF raiser = 0
             THEN pc' = next /\ UNCHANGED <<outcome, error>>
             ELSE Raise("ObserverError")

\* sleep(n): blocks n seconds, or is interrupted
SleepStep(at, n, next) ==
    /\ pc = at
    /\ \/ /\ now' = now + n * TicksPerSecond
          /\ trace' = Append(trace, [Entry("sleep", "", runs) EXCEPT !.n = n])
          /\ pc' = next
          /\ UNCHANGED <<outcome, error>>
       \/ /\ Raise("KeyboardInterrupt")
          /\ UNCHANGED <<now, trace>>

\* lines 176-177
LeftStart ==
    /\ NotifyStep("L177", "onLeftStart", "L179")
    /\ UNCHANGED <<fixed, now, trigger, locals, runs>>

\* line 179
LeftSleep ==
    /\ SleepStep("L179", window.left, "L180")
    /\ UNCHANGED <<fixed, trigger, locals, runs>>

\* line 180
LeftEnd ==
    /\ NotifyStep("L180", "onLeftEnd", "L183")
    /\ UNCHANGED <<fixed, now, trigger, locals, runs>>

\* lines 183-186: onTreatmentStart, treatment_start, trigger_meta = {}
TreatmentStart ==
    /\ NotifyStep("L183", "onTreatmentStart", "L188")
    /\ IF pc' = "L188"
       THEN /\ \E t \in ClockReads : now' = t /\ treatment_start' = t
            /\ trigger_meta' = "{}"
       ELSE UNCHANGED <<now, treatment_start, trigger_meta>>
    /\ UNCHANGED <<fixed, trigger, start_time,
                   treatment_end, end_time, run_hash, run_data, rep, runs>>


\* Driver that notifies onTreatmentEnd although the driver raised
Driver_endEventOnError ==
    /\ pc = "L188"
    /\ \/ /\ mode = "timer"
          /\ IF window = NoWindow
             THEN Raise("AssertionError:window") /\ UNCHANGED <<now, trace>>
             ELSE SleepStep("L188", window.duration, "L206")
          /\ UNCHANGED trigger_meta
       \/ /\ mode = "module"
          /\ IF TriggerCallBinds(modules[module_trigger])
             THEN \/ \E ret \in DriverReturns, d \in Elapsed :
                        /\ trigger_meta' = ret
                        /\ now' = now + d
                        /\ trace' = Append(trace,
                              [Entry("driver", "module", runs) EXCEPT !.ret = ret])
                        /\ pc' = "L206"
                        /\ UNCHANGED <<outcome, error>>
                  \/ /\ Raise("DriverError")
                     /\ trace' = Append(trace, Entry("driver", "module", runs))
                           \o NotifyObservers(
                                 Entry("", "onTreatmentEnd", runs), 0)
                     /\ UNCHANGED <<trigger_meta, now>>
             ELSE /\ Raise("TypeError:trigger")
                  /\ UNCHANGED <<trigger_meta, trace, now>>
       \/ /\ mode = "trigger"
          /\ trigger = None
          /\ Raise("AssertionError:trigger")
          /\ UNCHANGED <<trigger_meta, trace, now>>
       \/ /\ mode = "trigger"
          /\ trigger # None
          /\ \/ \E ret \in DriverReturns, d \in Elapsed :
                   /\ trigger_meta' = ret
                   /\ now' = now + d
                   /\ trace' = Append(trace,
                         [Entry("driver", "trigger", runs) EXCEPT !.ret = ret])
                   /\ pc' = "L206"
                   /\ UNCHANGED <<outcome, error>>
             \/ /\ Raise("DriverError")
                /\ trace' = Append(trace, Entry("driver", "trigger", runs))
                      \o NotifyObservers(Entry("", "onTreatmentEnd", runs), 0)
                /\ UNCHANGED <<trigger_meta, now>>
    /\ UNCHANGED <<fixed, trigger, start_time,
                   treatment_start, treatment_end, end_time, run_hash,
                   run_data, rep, runs>>

\* lines 188-204: the treatment driver of the mode
Driver ==
    /\ pc = "L188"
    /\ \/ /\ mode = "timer"
          /\ IF window = NoWindow
             THEN Raise("AssertionError:window") /\ UNCHANGED <<now, trace>>
             ELSE SleepStep("L188", window.duration, "L206")
          /\ UNCHANGED trigger_meta
       \/ /\ mode = "module"
          /\ IF TriggerCallBinds(modules[module_trigger])
             THEN \/ \E ret \in DriverReturns, d \in Elapsed :
                        /\ trigger_meta' = ret
                        /\ now' = now + d
                        /\ trace' = Append(trace,
                              [Entry("driver", "module", runs) EXCEPT !.ret = ret])
                        /\ pc' = "L206"
                        /\ UNCHANGED <<outcome, error>>
                  \/ /\ Raise("DriverError")
                     /\ trace' = Append(trace, Entry("driver", "module", runs))
                     /\ UNCHANGED <<trigger_meta, now>>
             ELSE /\ Raise("TypeError:trigger")
                  /\ UNCHANGED <<trigger_meta, trace, now>>
       \/ /\ mode = "trigger"
          /\ trigger = None
          /\ Raise("AssertionError:trigger")
          /\ UNCHANGED <<trigger_meta, trace, now>>
       \/ /\ mode = "trigger"
          /\ trigger # None
          /\ \/ \E ret \in DriverReturns, d \in Elapsed :
                   /\ trigger_meta' = ret
                   /\ now' = now + d
                   /\ trace' = Append(trace,
                         [Entry("driver", "trigger", runs) EXCEPT !.ret = ret])
                   /\ pc' = "L206"
                   /\ UNCHANGED <<outcome, error>>
             \/ /\ Raise("DriverError")
                /\ trace' = Append(trace, Entry("driver", "trigger", runs))
                /\ UNCHANGED <<trigger_meta, now>>
    /\ UNCHANGED <<fixed, trigger, start_time,
                   treatment_start, treatment_end, end_time, run_hash,
                   run_data, rep, runs>>

\* lines 206-209: treatment_end, then onTreatmentEnd
TreatmentEnd ==
    /\ pc = "L206"
    /\ \E t \in ClockReads : now' = t /\ treatment_end' = t
    /\ NotifyStep("L206", "onTreatmentEnd",
                  IF window # NoWindow THEN "L212" ELSE "L216")
    /\ UNCHANGED <<fixed, trigger, start_time,
                   treatment_start, end_time, run_hash, trigger_meta,
                   run_data, rep, runs>>

\* lines 211-212
RightStart ==
    /\ NotifyStep("L212", "onRightStart", "L214")
    /\ UNCHANGED <<fixed, now, trigger, locals, runs>>

\* line 214
RightSleep ==
    /\ SleepStep("L214", window.right, "L215")
    /\ UNCHANGED <<fixed, trigger, locals, runs>>

\* line 215
RightEnd ==
    /\ NotifyStep("L215", "onRightEnd", "L216")
    /\ UNCHANGED <<fixed, now, trigger, locals, runs>>

\* AssembleRun with endTime and treatment_end exchanged
AssembleRun_swapped(st, et, ts, te, h, ud) == SMARun(st, te, ts, et, h, ud)

\* AssembleRun without user_data=trigger_meta
AssembleRun_noUserData(st, et, ts, te, h, ud) == SMARun(st, et, ts, te, h, "{}")

\* lines 219-226: the SMARun record of the run
AssembleRun(st, et, ts, te, h, ud) == SMARun(st, et, ts, te, h, ud)

\* the measurements of the configuration, in the order of the loop
MeasurementSeq == <<"cpu", "power">>

\* --------------------------------------------------- sma/report.py Report
\* config.measurements: the measurements the configuration defines, those
\* observe_once queries
ConfigMeasurements == Measurements

\* Report.measurments(), lines 62-63: the keys of config.measurements
Measurments(r) == ConfigMeasurements

\* Report.__getitem__(item), lines 57-60
GetItem(r, item) == IF item \in DOMAIN r.data THEN "ok" ELSE "KeyError"

\* ------------------------------------------------- sma/report.py location
\* datetime.strftime("%Y_%m_%d_%H_%M_%S"): the text of the whole seconds
Strftime(t) == ToString(t \div TicksPerSecond)

\* the text of timedelta.total_seconds(), a float, for d ticks
TotalSeconds(d) ==
    ToString(d \div TicksPerSecond)
        \o (IF d % TicksPerSecond = 0 THEN ".0" ELSE ".5")

\* the keys of ReportMetadata.to_dict a location template refers to
ContextKeys ==
    {"${session}", "${startTime}", "${endTime}", "${runHash}", "${duration}",
     "${treatment_duration}"}

\* ReportMetadata.to_dict: the context of the location template, the
\* session name and the fields of the run (the times through strftime);
\* the value under the key p
LocationContext(md, p) ==
        CASE p = "${session}" -> md.session
          [] p = "${startTime}" -> Strftime(md.run.startTime)
          [] p = "${endTime}" -> Strftime(md.run.endTime)
          [] p = "${runHash}" -> md.run.runHash
          [] p = "${duration}" ->
               TotalSeconds(md.run.endTime - md.run.startTime)
          [] p = "${treatment_duration}" ->
               TotalSeconds(md.run.treatment_end - md.run.treatment_start)

\* Template.safe_substitute on one token: a placeholder of the context is
\* replaced by its value, anything else stays as it is
Substitute(tok, md) ==
    IF tok \in ContextKeys THEN LocationContext(md, tok) ELSE tok

RECURSIVE Concat(_)
Concat(toks) == IF toks = <<>> THEN "" ELSE Head(toks) \o Concat(Tail(toks))

\* Report._calculate_location, lines 71-73: the substituted location, as
\* its segments between separators (the names of the model hold no separator)
SubstituteLocation(md) ==
    [i \in 1..Len(location) |->
        Concat([j \in 1..Len(location[i]) |->
                   Substitute(location[i][j], md)])]

\* os.path.isabs: the path starts with the separator
IsAbs(parts) == Len(parts) >= 2 /\ parts[1] = ""

\* ValidateLocation that only refuses absolute paths
ValidateLocation_absOnly(parts) ==
    IF IsAbs(parts) THEN "ValueError:location" ELSE "ok"

\* ReportIO._validate_location
ValidateLocation(parts) ==
    IF IsAbs(parts) THEN "ValueError:location"
    ELSE IF \E i \in 1..Len(parts) : parts[i] = ".." THEN "ValueError:location"
    ELSE "ok"

\* Report.__init__ -> _calculate_location: what constructing the report raises
CalculateLocation(md) == ValidateLocation(SubstituteLocation(md))

\* lines 249-252: the labelled table of a measurement queried over the run,
\* one row per tick from startTime to endTime
Observed(run) == Table(run.endTime - run.startTime, <<"value", "treatment">>)

\* EndAndObserve where the first ServiceException ends observe_once
EndAndObserve_abortOnFailure ==
    /\ pc = "L216"
    /\ \E t \in ClockReads, ok \in SUBSET Measurements :
          /\ now' = t
          /\ end_time' = t
          /\ run_data' = AssembleRun(start_time, t, treatment_start,
                                     treatment_end, run_hash, trigger_meta)
          /\ LET md == ReportMetadata(session, run_data')
                 n == Len(MeasurementSeq)
                 bad == {j \in 1..n : MeasurementSeq[j] \notin ok}
                 upto == IF bad = {} THEN n
                         ELSE CHOOSE j \in bad : \A l \in bad : j <= l
             IN  IF CalculateLocation(md) # "ok"
                 THEN /\ ok = {}
                      /\ rep' = rep
                      /\ trace' = Append(trace,
                            Entry("report", "ValueError:location", runs))
                      /\ Raise("ValueError:location")
                 ELSE /\ trace' = trace
                            \o <<Entry("report", "ok", runs)>>
                            \o [j \in 1..upto |->
                                  [Entry("query", MeasurementSeq[j], runs)
                                   EXCEPT !.ret =
                                     IF MeasurementSeq[j] \in ok
                                     THEN "ok" ELSE "ServiceException"]]
                      /\ rep' = Report(md,
                            [m \in {MeasurementSeq[j] : j \in 1..upto} \cap ok
                                |-> Observed(md.run)])
                      /\ IF bad = {}
                         THEN pc' = "L256" /\ UNCHANGED <<outcome, error>>
                         ELSE Raise("ServiceException")
    /\ UNCHANGED <<fixed, trigger, start_time,
                   treatment_start, treatment_end, run_hash, trigger_meta,
                   runs>>

\* lines 216-254: end_time, run_data, then observe_once up to persist:
\* the Report with no data, built and its location validated, then one
\* query per measurement; a measurement whose query raises
\* ServiceException is left out
EndAndObserve ==
    /\ pc = "L216"
    /\ \E t \in ClockReads, ok \in SUBSET Measurements :
          /\ now' = t
          /\ end_time' = t
          /\ run_data' = AssembleRun(start_time, t, treatment_start,
                                     treatment_end, run_hash, trigger_meta)
          /\ LET md == ReportMetadata(session, run_data')
             IN  IF CalculateLocation(md) # "ok"
                 THEN /\ ok = {}
                      /\ rep' = rep
                      /\ trace' = Append(trace,
                            Entry("report", "ValueError:location", runs))
                      /\ Raise("ValueError:location")
                 ELSE /\ rep' = Report(md, [m \in ok |-> Observed(md.run)])
                      /\ trace' = trace
                            \o <<Entry("report", "ok", runs)>>
                            \o [j \in 1..Len(MeasurementSeq) |->
                                  [Entry("query", MeasurementSeq[j], runs)
                                   EXCEPT !.ret =
                                     IF MeasurementSeq[j] \in ok
                                     THEN "ok" ELSE "ServiceException"]]
                      /\ pc' = "L256"
                      /\ UNCHANGED <<outcome, error>>
    /\ UNCHANGED <<fixed, trigger, start_time,
                   treatment_start, treatment_end, run_hash, trigger_meta,
                   runs>>

\* ---------------------------------------------- sma/report.py ReportIO.persist
\* the data files of report r, in the order of report.observations
DataFiles(r) ==
    LET sel == SelectSeq(MeasurementSeq, LAMBDA m : m \in DOMAIN r.data)
    IN  [j \in 1..Len(sel) |-> "data/" \o sel[j] \o "." \o format]

\* PersistOps with the manifest written first
PersistOps_manifestFirst(r) ==
    <<"makedirs", "makedirs:data">>
    \o (IF format # "csv" /\ DOMAIN r.data # {} THEN <<>>
        ELSE <<"manifest.json">> \o DataFiles(r)
             \o <<"session.json", "run.json">>
             \o (IF config_file THEN <<"config.yaml">> ELSE <<>>))

\* persist, lines 135-207: the directories made and the files written, in
\* program order; a format other than csv raises at the first data file
PersistOps(r) ==
    <<"makedirs", "makedirs:data">>
    \o (IF format # "csv" /\ DOMAIN r.data # {} THEN <<>>
        ELSE DataFiles(r)
             \o <<"session.json", "run.json">>
             \o (IF config_file THEN <<"config.yaml">> ELSE <<>>)
             \o <<"manifest.json">>)

\* the steps at which persist can fail: 0 for none, k for its k-th operation
FailPoints(r) == 0..Len(PersistOps(r))

\* the error persist raises for report r when operation `fail` fails
PersistError(r, fail) ==
    IF fail # 0 THEN "OSError"
    ELSE IF DOMAIN r.data # {} /\ format # "csv" THEN "ValueError:format"
    ELSE "ok"

\* what persist does to the disk up to the failure: one write entry per
\* operation attempted
PersistWrites(r, fail) ==
    LET ops == PersistOps(r)
        n == IF fail = 0 THEN Len(ops) ELSE fail
    IN  [k \in 1..n |->
            [Entry("write", ops[k], runs) EXCEPT
                !.ret = IF k = fail THEN "failed" ELSE "ok"]]

\* Persist that goes on to onReport whatever persist did
Persist_ignoreFailure ==
    /\ pc = "L256"
    /\ \E fail \in FailPoints(rep) :
          trace' = trace \o PersistWrites(rep, fail) \o
              <<[Entry("persist",
                       IF PersistError(rep, fail) = "ok" THEN "ok" ELSE "failed",
                       runs) EXCEPT !.rep = rep]>>
    /\ pc' = "L257"
    /\ UNCHANGED <<outcome, error>>
    /\ UNCHANGED <<fixed, now, trigger, locals, runs>>

\* line 256: rep.persist()
Persist ==
    /\ pc = "L256"
    /\ \E fail \in FailPoints(rep) :
          IF PersistError(rep, fail) = "ok"
          THEN /\ trace' = trace \o PersistWrites(rep, fail) \o
                     <<[Entry("persist", "ok", runs) EXCEPT !.rep = rep]>>
               /\ pc' = "L257"
               /\ UNCHANGED <<outcome, error>>
          ELSE /\ trace' = trace \o PersistWrites(rep, fail) \o
                     <<[Entry("persist", "failed", runs) EXCEPT !.rep = rep]>>
               /\ Raise(PersistError(rep, fail))
    /\ UNCHANGED <<fixed, now, trigger, locals, runs>>

\* the payload of notify_observers("onReport", report=rep)
OnReportEvent == [Entry("", "onReport", runs) EXCEPT !.rep = rep]

\* line 257: onReport with the report
NotifyReport ==
    /\ pc = "L257"
    /\ \E raiser \in Raisers("onReport") :
          /\ trace' = trace \o NotifyObservers(OnReportEvent, raiser)
          /\ IF raiser = 0
             THEN pc' = "L233" /\ UNCHANGED <<outcome, error>>
             ELSE Raise("ObserverError")
    /\ UNCHANGED <<fixed, now, trigger, locals, runs>>

\* onRunEnd with a Run that is not the one of the report
OnRunEndEvent_otherRun ==
    [Entry("", "onRunEnd", runs) EXCEPT
        !.run = [run_data EXCEPT !.endTime = now + 1]]

\* the payload of notify_observers("onRunEnd", run=run_data)
OnRunEndEvent == [Entry("", "onRunEnd", runs) EXCEPT !.run = run_data]

\* NotifyRunEnd that empties the registry when the run is over
NotifyRunEnd_unregister ==
    /\ pc = "L233"
    /\ \E raiser \in Raisers("onRunEnd") :
          /\ trace' = trace \o NotifyObservers(OnRunEndEvent, raiser)
          /\ IF raiser = 0
             THEN pc' = "idle" /\ outcome' = "returned" /\ UNCHANGED error
             ELSE Raise("ObserverError")
    /\ observers' = <<>>
    /\ UNCHANGED <<cfgvars, session, slog, ctx, now, trigger, locals, runs>>

\* line 233: onRunEnd with the run, then run() returns
NotifyRunEnd ==
    /\ pc = "L233"
    /\ \E raiser \in Raisers("onRunEnd") :
          /\ trace' = trace \o NotifyObservers(OnRunEndEvent, raiser)
          /\ IF raiser = 0
             THEN pc' = "idle" /\ outcome' = "returned" /\ UNCHANGED error
             ELSE Raise("ObserverError")
    /\ UNCHANGED <<fixed, now, trigger, locals, runs>>

\* ------------------------------------------------ sma/sma.py start_session
\* teardown(): onSessionEnd, then onTeardown; f2, f3 say who raises
TeardownLog(f2, f3) ==
    NotifyObservers(Entry("", "onSessionEnd", runs), f2)
    \o (IF f2 = 0 THEN NotifyObservers(Entry("", "onTeardown", runs), f3)
        ELSE <<>>)

\* a finally block that does not call teardown()
FinallyLog_noTeardown(f1, f2, f3) ==
    NotifyObservers(Entry("", "onSessionEnd", runs), f1)

\* the finally block of start_session: onSessionEnd, then teardown()
FinallyLog(f1, f2, f3) ==
    NotifyObservers(Entry("", "onSessionEnd", runs), f1)
    \o (IF f1 = 0 THEN TeardownLog(f2, f3) ELSE <<>>)

\* who raises in the finally block: at most the first one that is reached
FinallyRaisers ==
    {f \in Raisers("onSessionEnd") \X Raisers("onSessionEnd")
            \X Raisers("onTeardown") :
        /\ f[1] # 0 => (f[2] = 0 /\ f[3] = 0)
        /\ f[2] # 0 => f[3] = 0}

\* with start_session(): setup, onSessionStart, then the body; when setup
\* or onSessionStart raises the finally block runs at once
StartSession ==
    /\ pc = "idle"
    /\ ctx = "out"
    /\ session = None
    /\ NoSetupYet
    /\ \E r1 \in Raisers("onSetup"), r2 \in Raisers("onSessionStart"),
          f \in FinallyRaisers :
          /\ r1 # 0 => r2 = 0
          /\ (r1 = 0 /\ r2 = 0) => f = <<0, 0, 0>>
          /\ slog' = slog
                \o NotifyObservers(Entry("", "onSetup", runs), r1)
                \o (IF r1 = 0
                    THEN NotifyObservers(Entry("", "onSessionStart", runs), r2)
                    ELSE <<>>)
                \o (IF r1 # 0 \/ r2 # 0 THEN FinallyLog(f[1], f[2], f[3])
                    ELSE <<>>)
          /\ session' = IF r1 = 0 THEN meta_session ELSE session
          /\ ctx' = IF r1 = 0 /\ r2 = 0 THEN "body" ELSE "closed"
    /\ UNCHANGED <<cfgvars, observers, now, pc, trigger, locals, runs, outcome,
                   error, trace>>

\* leaving the with block, normally or with the exception of a run():
\* the finally block
EndSession ==
    /\ pc = "idle"
    /\ ctx = "body"
    /\ \E f \in FinallyRaisers :
          slog' = slog \o FinallyLog(f[1], f[2], f[3])
    /\ ctx' = "closed"
    /\ UNCHANGED <<cfgvars, observers, session, now, pc, trigger, locals, runs,
                   outcome, error, trace>>

\* ------------------------------------------ sma/report.py what is on disk
\* a directory with nothing in it. manifest, session and run hold the
\* content of manifest.json, session.json and run.json (no element: the file
\* is not there), config says whether config.yaml is there, legacy whether
\* run_metadata.json is, data maps the names of the files of data/ to
\* their tables
EmptyDir ==
    [isdir |-> TRUE, manifest |-> {}, session |-> {}, run |-> {},
     config |-> FALSE, legacy |-> FALSE, data |-> NoData]

\* a path that is a plain file
PlainFile == [EmptyDir EXCEPT !.isdir = FALSE]

\* os.path.exists(p)
Exists(d, p) == p \in DOMAIN d

\* lines 160-165: the content of session.json
SessionJson(r) == [name |-> r.metadata.session, extras |-> "{}"]

\* RunJson with the two times of the treatment under each other's key
RunJson_swapped(r) ==
    LET run == r.metadata.run
    IN  [startTime |-> Strftime(run.startTime),
         endTime |-> Strftime(run.endTime),
         treatment_start |-> Strftime(run.treatment_end),
         treatment_end |-> Strftime(run.treatment_start),
         runHash |-> run.runHash,
         duration |-> run.endTime - run.startTime,
         treatment_duration |-> run.treatment_end - run.treatment_start,
         user_data |-> IF run.user_data = None THEN "{}" ELSE run.user_data]

\* lines 168-182: the content of run.json (durations in ticks)
RunJson(r) ==
    LET run == r.metadata.run
    IN  [startTime |-> Strftime(run.startTime),
         endTime |-> Strftime(run.endTime),
         treatment_start |-> Strftime(run.treatment_start),
         treatment_end |-> Strftime(run.treatment_end),
         runHash |-> run.runHash,
         duration |-> run.endTime - run.startTime,
         treatment_duration |-> run.treatment_end - run.treatment_start,
         user_data |-> IF run.user_data = None THEN "{}" ELSE run.user_data]

\* DataFileInfo that records no rows
DataFileInfo_noRows(r) ==
    [m \in DOMAIN r.data |->
        [filename |-> m \o "." \o format,
         rows |-> 0, columns |-> r.data[m].columns]]

\* lines 143-157: the data_files entry of the manifest
DataFileInfo(r) ==
    [m \in DOMAIN r.data |->
        [filename |-> m \o "." \o format,
         rows |-> r.data[m].rows, columns |-> r.data[m].columns]]

\* lines 194-204: the manifest written at time t
Manifest(r, t) ==
    [version |-> "1.1", created_at |-> t, format |-> format,
     data_files |-> DataFileInfo(r),
     files |-> [session |-> "session.json", run |-> "run.json",
                config |-> "config.yaml"]]

\* WriteOp that appends to a data file that is there
WriteOp_append(dir, op, r, t) ==
    CASE op = "session.json" -> [dir EXCEPT !.session = {SessionJson(r)}]
      [] op = "run.json" -> [dir EXCEPT !.run = {RunJson(r)}]
      [] op = "config.yaml" -> [dir EXCEPT !.config = TRUE]
      [] op = "manifest.json" -> [dir EXCEPT !.manifest = {Manifest(r, t)}]
      [] op \in {"makedirs", "makedirs:data"} -> dir
      [] OTHER ->
           LET m == CHOOSE m \in DOMAIN r.data :
                        op = "data/" \o m \o "." \o format
               f == m \o "." \o format
           IN  [dir EXCEPT !.data =
                   [g \in DOMAIN dir.data \cup {f} |->
                       IF g # f THEN dir.data[g]
                       ELSE IF f \in DOMAIN dir.data
                       THEN Table(dir.data[f].rows + r.data[m].rows,
                                  r.data[m].columns)
                       ELSE r.data[m]]]

\* what one operation of persist leaves in the directory dir
WriteOp(dir, op, r, t) ==
    CASE op = "session.json" -> [dir EXCEPT !.session = {SessionJson(r)}]
      [] op = "run.json" -> [dir EXCEPT !.run = {RunJson(r)}]
      [] op = "config.yaml" -> [dir EXCEPT !.config = TRUE]
      [] op = "manifest.json" -> [dir EXCEPT !.manifest = {Manifest(r, t)}]
      [] op \in {"makedirs", "makedirs:data"} -> dir
      [] OTHER ->
           LET m == CHOOSE m \in DOMAIN r.data :
                        op = "data/" \o m \o "." \o format
               f == m \o "." \o format
           IN  [dir EXCEPT !.data =
                   [g \in DOMAIN dir.data \cup {f} |->
                       IF g = f THEN r.data[m] ELSE dir.data[g]]]

RECURSIVE ApplyOps(_, _, _, _, _)
ApplyOps(dir, ops, k, r, t) ==
    IF k = 0 THEN dir
    ELSE WriteOp(ApplyOps(dir, ops, k - 1, r, t), ops[k], r, t)

\* Report._get_or_make_report_location: the directory persist writes into,
\* the one that exists or a new one
MakeLocation(d, p) == IF Exists(d, p) THEN d[p] ELSE EmptyDir

\* ReportIO.persist(report) at time t, its operation `fail` failing (0: none):
\* the disk it leaves. A failing operation leaves its file as it was
PersistTo(d, r, fail, t) ==
    LET p == SubstituteLocation(r.metadata)
        ops == PersistOps(r)
        done == IF fail = 0 THEN Len(ops) ELSE fail - 1
    IN  IF done = 0 THEN d
        ELSE [q \in DOMAIN d \cup {p} |->
                 IF q = p THEN ApplyOps(MakeLocation(d, p), ops, done, r, t)
                 ELSE d[q]]

\* the runs of the reports handed to the store
StoreRuns ==
    {SMARun(1, 6, 3, 5, "a1b2c3d4", None),
     SMARun(2, 6, 2, 4, "e5f6a7b8", "{users:10}")}

\* the observations of the reports handed to the store
StoreData ==
    {NoData,
     [m \in {"cpu", "power"} |->
         Table(IF m = "cpu" THEN 6 ELSE 4, <<"value", "treatment">>)]}

\* Report(metadata, config, data): the reports that can be constructed, the
\* constructor raising for an unsafe location
StoreReports ==
    {r \in {Report(ReportMetadata(meta_session, run), d) :
               run \in StoreRuns, d \in StoreData} :
        CalculateLocation(r.metadata) = "ok"}

\* one more operation of ReportIO: op called for the path `at`, what it
\* raised (err) and the reports it returned or was given
Returned(op, at, fail, err, reports) ==
    [NoResult EXCEPT !.n = result.n + 1, !.op = op, !.at = at, !.fail = fail,
                     !.err = err, !.reports = reports]

\* the operations of persist that fail in the runs of the store: none, the
\* first write after the directories are made, the write of the manifest
StoreFailPoints(r) == {0, 3, Len(PersistOps(r))}

\* report.persist() for a report the caller holds
StorePersist(r, fail) ==
    /\ result.n < MaxStoreOps
    /\ now' = now + 1
    /\ disk' = PersistTo(disk, r, fail, now)
    /\ result' = Returned("persist", SubstituteLocation(r.metadata), fail,
                          PersistError(r, fail), <<r>>)
    /\ UNCHANGED <<agents, mode, window, module_trigger, format, modules,
                   location,
                   config_file, module_config, meta_session, observers,
                   session, pc, trigger, locals, runs, outcome, error, trace,
                   slog, ctx>>

\* ------------------------------------------------ sma/report.py loading
\* the datetimes strptime("%Y_%m_%d_%H_%M_%S") can give: whole seconds
WholeSeconds ==
    {TicksPerSecond * (t \div TicksPerSecond) :
        t \in UNION {{run.startTime, run.endTime, run.treatment_start,
                      run.treatment_end} : run \in StoreRuns}}

\* datetime.strptime(text, "%Y_%m_%d_%H_%M_%S")
Strptime(text) == CHOOSE t \in WholeSeconds : Strftime(t) = text

\* a load that raised
Failed(e) == [err |-> e, decoder |-> None, report |-> NoReport]

\* _load_v1_0 with no observations
DecodeV1_0_noData(dir, m) ==
    IF ~(m.files.session = "session.json" /\ dir.session # {})
    THEN Failed("FileNotFoundError")
    ELSE IF ~(m.files.run = "run.json" /\ dir.run # {})
    THEN Failed("FileNotFoundError")
    ELSE LET sj == CHOOSE x \in dir.session : TRUE
             rj == CHOOSE x \in dir.run : TRUE
             md == ReportMetadata(sj.name,
                      SMARun(Strptime(rj.startTime), Strptime(rj.endTime),
                             Strptime(rj.treatment_start),
                             Strptime(rj.treatment_end),
                             rj.runHash, rj.user_data))
         IN  IF CalculateLocation(md) # "ok" THEN Failed("ValueError:location")
             ELSE [err |-> "ok", decoder |-> "1.0",
                   report |-> Report(md, NoData)]

\* _load_v1_0, lines 350-404: session.json and run.json as the manifest
\* names them, then every data file of data_files read as csv
DecodeV1_0(dir, m) ==
    IF ~(m.files.session = "session.json" /\ dir.session # {})
    THEN Failed("FileNotFoundError")
    ELSE IF ~(m.files.run = "run.json" /\ dir.run # {})
    THEN Failed("FileNotFoundError")
    ELSE IF \E n \in DOMAIN m.data_files :
               m.data_files[n].filename \notin DOMAIN dir.data
    THEN Failed("FileNotFoundError")
    ELSE LET sj == CHOOSE x \in dir.session : TRUE
             rj == CHOOSE x \in dir.run : TRUE
             md == ReportMetadata(sj.name,
                      SMARun(Strptime(rj.startTime), Strptime(rj.endTime),
                             Strptime(rj.treatment_start),
                             Strptime(rj.treatment_end),
                             rj.runHash, rj.user_data))
         IN  IF CalculateLocation(md) # "ok" THEN Failed("ValueError:location")
             ELSE [err |-> "ok", decoder |-> "1.0",
                   report |-> Report(md,
                       [n \in DOMAIN m.data_files |->
                           dir.data[m.data_files[n].filename]])]

\* _load_v1_1 that reads every file it finds in data/
DecodeV1_1_listing(dir, m) ==
    IF ~(m.files.session = "session.json" /\ dir.session # {})
    THEN Failed("FileNotFoundError")
    ELSE IF ~(m.files.run = "run.json" /\ dir.run # {})
    THEN Failed("FileNotFoundError")
    ELSE LET sj == CHOOSE x \in dir.session : TRUE
             rj == CHOOSE x \in dir.run : TRUE
             run == SMARun(Strptime(rj.startTime), Strptime(rj.endTime),
                           Strptime(rj.treatment_start),
                           Strptime(rj.treatment_end),
                           rj.runHash, rj.user_data)
             data == [n \in {x \in Measurements :
                               x \o "." \o format \in DOMAIN dir.data} |->
                         dir.data[n \o "." \o format]]
             md == ReportMetadata(sj.name, run)
         IN  IF CalculateLocation(md) # "ok" THEN Failed("ValueError:location")
             ELSE [err |-> "ok", decoder |-> "1.1", report |-> Report(md, data)]

\* _load_v1_1, lines 296-347
DecodeV1_1(dir, m) ==
    IF ~(m.files.session = "session.json" /\ dir.session # {})
    THEN Failed("FileNotFoundError")
    ELSE IF ~(m.files.run = "run.json" /\ dir.run # {})
    THEN Failed("FileNotFoundError")
    ELSE IF \E n \in DOMAIN m.data_files :
               m.data_files[n].filename \notin DOMAIN dir.data
    THEN Failed("FileNotFoundError")
    ELSE LET sj == CHOOSE x \in dir.session : TRUE
             rj == CHOOSE x \in dir.run : TRUE
             run == SMARun(Strptime(rj.startTime), Strptime(rj.endTime),
                           Strptime(rj.treatment_start),
                           Strptime(rj.treatment_end),
                           rj.runHash, rj.user_data)
             data == [n \in DOMAIN m.data_files |->
                         dir.data[m.data_files[n].filename]]
             md == ReportMetadata(sj.name, run)
         IN  IF CalculateLocation(md) # "ok" THEN Failed("ValueError:location")
             ELSE [err |-> "ok", decoder |-> "1.1", report |-> Report(md, data)]

\* manifest.get("version", "1.0")
VersionOf(m) == IF m.version = None THEN "1.0" ELSE m.version

\* Dispatch that refuses a version it does not know
Dispatch_strict(dir, m) ==
    IF VersionOf(m) = "1.0" THEN DecodeV1_0(dir, m)
    ELSE IF VersionOf(m) = "1.1" THEN DecodeV1_1(dir, m)
    ELSE Failed("ValueError:version")

\* lines 283-292: the decoder of the manifest's version
Dispatch(dir, m) ==
    IF VersionOf(m) = "1.0" THEN DecodeV1_0(dir, m)
    ELSE IF VersionOf(m) = "1.1" THEN DecodeV1_1(dir, m)
    ELSE DecodeV1_0(dir, m)

\* LoadFromLocation that rebuilds a report from the files it finds when
\* there is no manifest
LoadFromLocation_listing(d, p) ==
    IF ~Exists(d, p) THEN Failed("FileNotFoundError")
    ELSE IF d[p].manifest = {}
    THEN IF d[p].session # {} /\ d[p].run # {}
         THEN DecodeV1_0(d[p],
                  [Manifest(NoReport, 0) EXCEPT !.data_files = NoData])
         ELSE Failed("ValueError:manifest")
    ELSE Dispatch(d[p], CHOOSE m \in d[p].manifest : TRUE)

\* ReportIO.load_from_location(location, config), lines 260-294
LoadFromLocation(d, p) ==
    IF ~Exists(d, p) THEN Failed("FileNotFoundError")
    ELSE IF d[p].manifest = {} THEN Failed("ValueError:manifest")
    ELSE Dispatch(d[p], CHOOSE m \in d[p].manifest : TRUE)

\* the paths a caller can ask for: those of the reports, and one of no report
StorePaths ==
    {SubstituteLocation(r.metadata) : r \in StoreReports}
        \cup {<<"reports", "nowhere">>}

\* ReportIO.load_from_location called on its own
StoreLoad(p) ==
    /\ result.n < MaxStoreOps
    /\ LET l == LoadFromLocation(disk, p)
       IN  result' = [Returned("load", p, 0, l.err,
                               IF l.err = "ok" THEN <<l.report>> ELSE <<>>)
                         EXCEPT !.decoder = l.decoder]
    /\ UNCHANGED <<agents, mode, window, module_trigger, format, modules,
                   location,
                   config_file, module_config, meta_session, observers,
                   session, now, pc, trigger, locals, runs, outcome, error,
                   trace, slog, ctx, disk>>

\* a report directory left by another release of the agent: the manifest
\* carries its version, or none
OtherVersions == {"1.0", "2.0", None}
Rewrite(p, v) ==
    /\ result.n < MaxStoreOps
    /\ Exists(disk, p) /\ disk[p].manifest # {}
    /\ disk' = [disk EXCEPT ![p].manifest =
                   {[m EXCEPT !.version = v] : m \in disk[p].manifest}]
    /\ result' = [Returned("rewrite", p, 0, "ok", <<>>) EXCEPT !.arg = v]
    /\ UNCHANGED <<agents, mode, window, module_trigger, format, modules,
                   location,
                   config_file, module_config, meta_session, observers,
                   session, now, pc, trigger, locals, runs, outcome, error,
                   trace, slog, ctx>>

\* ----------------------------------------- sma/report.py load_from_config
\* the placeholders a location template can hold
Placeholders ==
    {"${session}", "${startTime}", "${endTime}", "${runHash}", "${duration}",
     "${treatment_duration}"}

\* utils.get_identifiers_of_template(template): the variables of the template
TemplateIdentifiers(loc) ==
    UNION {{loc[i][j] : j \in 1..Len(loc[i])} : i \in 1..Len(loc)}
        \cap Placeholders

\* the overrides a caller passes as **search_overrides
NoOverrides == [v \in {} |-> ""]
Overrides ==
    {NoOverrides,
     [v \in {"${runHash}"} |-> "a1b2c3d4"],
     [v \in {"${session}"} |-> "TestSession"]}

\* lines 223-233: every variable of the template a wildcard, the overrides
\* in the place of theirs
GlobPattern(ov) ==
    [i \in 1..Len(location) |->
        [j \in 1..Len(location[i]) |->
            LET tok == location[i][j]
            IN  IF tok \notin TemplateIdentifiers(location) THEN tok
                ELSE IF tok \in DOMAIN ov THEN ov[tok]
                ELSE "*"]]

\* a path the agent did not write, below the same root
StrayHash == "stray"

\* the texts one variable of a path can stand for
GlobValues ==
    {"TestSession", ".hidden", StrayHash, TotalSeconds(0)} \cup Hashes
        \cup {Strftime(t) : t \in WholeSeconds}
        \cup {TotalSeconds(run.endTime - run.startTime) : run \in StoreRuns}
        \cup {TotalSeconds(Strptime(Strftime(run.endTime))
                              - Strptime(Strftime(run.startTime))) :
                 run \in StoreRuns}

\* the names glob hides from a wildcard: those that begin with a dot
DotNames == {".hidden", ".."}

\* glob on one path segment: a wildcard stands for any text without
\* separator, but at the start of the segment not for a name beginning
\* with a dot
SegMatches(pat, seg) ==
    LET stars == {j \in 1..Len(pat) : pat[j] = "*"}
    IN  \E c \in [stars -> GlobValues] :
            /\ Concat([j \in 1..Len(pat) |->
                          IF j \in stars THEN c[j] ELSE pat[j]]) = seg
            /\ 1 \in stars => c[1] \notin DotNames

\* glob(location_pattern), line 237
Glob(d, pattern) ==
    {p \in DOMAIN d :
        /\ Len(p) = Len(pattern)
        /\ \A i \in 1..Len(p) : SegMatches(pattern[i], p[i])}

\* the order in which glob lists the paths
RECURSIVE Listing(_)
Listing(paths) ==
    IF paths = {} THEN <<>>
    ELSE LET p == CHOOSE p \in paths : TRUE
         IN  <<p>> \o Listing(paths \ {p})

\* lines 238-247: the matched path is a directory holding manifest.json or
\* run_metadata.json
LooksLikeReport(d, p) ==
    d[p].isdir /\ (d[p].manifest # {} \/ d[p].legacy)

\* LoadFromConfig that lets the exception of a directory end the enumeration
LoadFromConfig_abort(d, ov) ==
    LET ps == SelectSeq(Listing(Glob(d, GlobPattern(ov))),
                        LAMBDA p : LooksLikeReport(d, p))
        bad == {i \in 1..Len(ps) : LoadFromLocation(d, ps[i]).err # "ok"}
    IN  IF bad # {}
        THEN [err |-> LoadFromLocation(d, ps[CHOOSE i \in bad : TRUE]).err,
              reports |-> <<>>]
        ELSE [err |-> "ok",
              reports |-> [i \in 1..Len(ps) |->
                              LoadFromLocation(d, ps[i]).report]]

\* ReportIO.load_from_config(config, **search_overrides), lines 212-258
LoadFromConfig(d, ov) ==
    LET ps == SelectSeq(Listing(Glob(d, GlobPattern(ov))),
                 LAMBDA p : /\ LooksLikeReport(d, p)
                            /\ LoadFromLocation(d, p).err = "ok")
    IN  [err |-> "ok",
         reports |-> [i \in 1..Len(ps) |-> LoadFromLocation(d, ps[i]).report]]

\* ReportIO.load_from_config called on its own
StoreLoadAll(ov) ==
    /\ result.n < MaxStoreOps
    /\ LET l == LoadFromConfig(disk, ov)
       IN  result' = [Returned("loadall", <<>>, 0, l.err, l.reports)
                         EXCEPT !.arg = ov]
    /\ UNCHANGED <<agents, mode, window, module_trigger, format, modules,
                   location,
                   config_file, module_config, meta_session, observers,
                   session, now, pc, trigger, locals, runs, outcome, error,
                   trace, slog, ctx, disk>>

\* where something that is not a report lies: the path the template gives
\* for a run hash no run has
StrayPath ==
    SubstituteLocation(
        ReportMetadata(meta_session, SMARun(0, 0, 0, 0, StrayHash, None)))

\* what can lie there: a plain file, an empty directory, a directory of the
\* time before manifests
Strays ==
    {PlainFile, EmptyDir, [EmptyDir EXCEPT !.legacy = TRUE]}

\* somebody else puts a file or a directory below the report root
Plant(x) ==
    /\ result.n < MaxStoreOps
    /\ ~Exists(disk, StrayPath)
    /\ disk' = [q \in DOMAIN disk \cup {StrayPath} |->
                   IF q = StrayPath THEN x ELSE disk[q]]
    /\ result' = Returned("plant", StrayPath, 0, "ok", <<>>)
    /\ UNCHANGED <<agents, mode, window, module_trigger, format, modules,
                   location,
                   config_file, module_config, meta_session, observers,
                   session, now, pc, trigger, locals, runs, outcome, error,
                   trace, slog, ctx>>

\* ------------------------------------------------------ cli/main.py fetch
\* observe_once(run_data, overwrite), sma.py lines 235-257, for the metadata
\* of a loaded report: a new Report of the measurements in ok, persisted at
\* time t; the overwrite argument is not read
Refetched(md, overwrite, ok) == Report(md, [m \in ok |-> Observed(md.run)])

\* _fetch(cnf, report_location, overwrite), lines 105-112: load the report
\* of the location, then observe_once with its metadata
StoreFetch(p, overwrite) ==
    /\ result.n < MaxStoreOps
    /\ now' = now + 1
    /\ LET l == LoadFromLocation(disk, p)
       IN  IF l.err # "ok"
           THEN /\ disk' = disk
                /\ result' = [Returned("fetch", p, 0, l.err, <<>>)
                                 EXCEPT !.arg = overwrite]
           ELSE \E ok \in SUBSET Measurements :
                  LET r == Refetched(l.report.metadata, overwrite, ok)
                  IN  \E fail \in {0, Len(PersistOps(r))} :
                        /\ disk' = PersistTo(disk, r, fail, now)
                        /\ result' =
                             [Returned("fetch", p, fail,
                                       PersistError(r, fail), <<r>>)
                                 EXCEPT !.arg = overwrite]
    /\ UNCHANGED <<agents, mode, window, module_trigger, format, modules,
                   location,
                   config_file, module_config, meta_session, observers,
                   session, pc, trigger, locals, runs, outcome, error, trace,
                   slog, ctx>>

\* the report store used on its own: the reports of one configuration
\* persisted and loaded
InitStore ==
    /\ mode = "trigger"
    /\ window = [left |-> 1, right |-> 1, duration |-> 2]
    /\ format = "csv"
    /\ module_config = NoModules
    /\ module_trigger = None
    /\ location \in {DefaultLocation, SessionLocation}
    /\ config_file = TRUE
    /\ meta_session \in {"TestSession", ".hidden"}
    /\ InitAgent

NextStore ==
    \/ \E r \in StoreReports : \E fail \in StoreFailPoints(r) :
          StorePersist(r, fail)
    \/ \E p \in StorePaths : StoreLoad(p)
    \/ \E p \in StorePaths, v \in OtherVersions : Rewrite(p, v)
    \/ \E ov \in Overrides : StoreLoadAll(ov)
    \/ \E x \in Strays : Plant(x)
    \/ \E p \in StorePaths, overwrite \in BOOLEAN : StoreFetch(p, overwrite)

SpecStore == InitStore /\ [][NextStore]_vars

\* the report store under a location template that holds the duration of
\* the run
InitDuration ==
    /\ mode = "trigger"
    /\ window = [left |-> 1, right |-> 1, duration |-> 2]
    /\ format = "csv"
    /\ module_config = NoModules
    /\ module_trigger = None
    /\ location = DurationLocation
    /\ config_file = TRUE
    /\ meta_session = "TestSession"
    /\ InitAgent

SpecDuration == InitDuration /\ [][NextStore]_vars

\* ------------------------------------- sma/sma.py several orchestrators
\* the observers somebody registers by hand
UserObservers == {"u1", "u2"}

\* the module instance the load_modules of the i-th orchestrator creates
ModuleInstance(i, id) == id \o "#" \o ToString(i)

\* self.observers of the i-th orchestrator: the list object it was given,
\* or the one list that is the default of the parameter
ObserversOf(i) ==
    IF agents.made[i].explicit THEN agents.made[i].own ELSE agents.default

\* the list that self.observers.append(o) of the i-th orchestrator changes
AppendTo(a, i, o) ==
    IF a.made[i].explicit
    THEN [a EXCEPT !.made[i].own = Append(@, o),
                   !.made[i].registered = Append(@, o)]
    ELSE [a EXCEPT !.default = Append(@, o),
                   !.made[i].registered = Append(@, o)]

\* load_modules of the i-th orchestrator, lines 61-81: one instance per
\* module of the configuration, registered and entered into self.modules
RECURSIVE LoadModules(_, _, _)
LoadModules(a, i, ids) ==
    IF ids = {} THEN a
    ELSE LET id == CHOOSE id \in ids : TRUE
         IN  LoadModules(AppendTo(a, i, ModuleInstance(i, id)), i, ids \ {id})

\* SustainabilityMeasurementAgent(config) or
\* SustainabilityMeasurementAgent(config, observers=[]), lines 31-40.
\* registered keeps what register_sma_observer was called with on this
\* orchestrator, by load_modules or by hand
NewAgent(explicit) ==
    /\ Len(agents.made) < MaxAgents
    /\ LET i == Len(agents.made) + 1
           a == [agents EXCEPT !.made =
                    Append(@, [explicit |-> explicit, own |-> <<>>,
                               registered |-> <<>>])]
       IN  agents' = LoadModules(a, i, DOMAIN LoadedModules(module_config))
    /\ UNCHANGED <<mode, window, module_trigger, format, modules, location,
                   config_file, module_config, meta_session, disk, result,
                   observers, session, now, pc, trigger, locals, runs,
                   outcome, error, trace, slog, ctx>>

\* register_sma_observer(o) on the i-th orchestrator, lines 101-102
RegisterOn(i, o) ==
    /\ i \in 1..Len(agents.made)
    /\ Cardinality({k \in 1..Len(agents.made[i].registered) :
                       agents.made[i].registered[k] \in UserObservers})
          < MaxRegistered
    /\ agents' = AppendTo(agents, i, o)
    /\ UNCHANGED <<mode, window, module_trigger, format, modules, location,
                   config_file, module_config, meta_session, disk, result,
                   observers, session, now, pc, trigger, locals, runs,
                   outcome, error, trace, slog, ctx>>

\* notify_observers(event) of the i-th orchestrator, lines 89-99, for an
\* event of its run: the method is called on every observer of its list
NotifyBy(i) ==
    /\ i \in 1..Len(agents.made)
    /\ agents' = [agents EXCEPT !.notified = [by |-> i, to |-> ObserversOf(i)]]
    /\ UNCHANGED <<mode, window, module_trigger, format, modules, location,
                   config_file, module_config, meta_session, disk, result,
                   observers, session, now, pc, trigger, locals, runs,
                   outcome, error, trace, slog, ctx>>

\* the orchestrators of one process (cli/main.py fetchall makes one per
\* report), with or without modules in the configuration
InitAgents ==
    /\ mode = "trigger"
    /\ window = [left |-> 1, right |-> 1, duration |-> 2]
    /\ format = "csv"
    /\ module_config \in {NoModules, [m \in {"loadgen"} |-> "telelocust"]}
    /\ module_trigger = None
    /\ location = DefaultLocation
    /\ config_file = TRUE
    /\ meta_session = "TestSession"
    /\ InitAgent

NextAgents ==
    \/ \E explicit \in BOOLEAN : NewAgent(explicit)
    \/ \E i \in 1..MaxAgents, o \in UserObservers : RegisterOn(i, o)
    \/ \E i \in 1..MaxAgents : NotifyBy(i)

SpecAgents == InitAgents /\ [][NextAgents]_vars

Next ==
    \/ \E kind \in UserObserverKinds : RegisterObserver(kind)
    \/ Setup
    \/ \E trig \in {None, "fn"} : RunCall(trig)
    \/ LeftStart
    \/ LeftSleep
    \/ LeftEnd
    \/ TreatmentStart
    \/ Driver
    \/ TreatmentEnd
    \/ RightStart
    \/ RightSleep
    \/ RightEnd
    \/ EndAndObserve
    \/ Persist
    \/ NotifyReport
    \/ NotifyRunEnd

Spec == Init /\ [][Next]_vars

\* the agent used through start_session (cli/main.py run): one mode, one
\* window, the default report configuration
InitSession ==
    /\ mode = "trigger"
    /\ window = [left |-> 1, right |-> 1, duration |-> 2]
    /\ format = "csv"
    /\ module_config \in {NoModules, [m \in {"loadgen"} |-> "telelocust"]}
    /\ module_trigger = None
    /\ location = DefaultLocation
    /\ config_file = TRUE
    /\ meta_session = "TestSession"
    /\ InitAgent

NextSession ==
    \/ StartSession
    \/ EndSession
    \/ Next

SpecSession == InitSession /\ [][NextSession]_vars

\* the agent over the configurations of modules and of the report, for one
\* mode and one window: construction is over when load_modules has returned
CfgModuleConfigs ==
    {NoModules,
     [m \in {"broken"} |-> NoKey],
     [m \in {"loadgen", "broken"} |->
         IF m = "loadgen" THEN "telelocust" ELSE NoKey],
     [m \in {"loadgen"} |-> NoSuchModule]}

InitCfg ==
    /\ mode = "trigger"
    /\ window = [left |-> 1, right |-> 1, duration |-> 2]
    /\ format \in {"csv", "parquet"}
    /\ module_config \in CfgModuleConfigs
    /\ module_trigger = None
    /\ location \in Locations
    /\ config_file \in BOOLEAN
    /\ meta_session \in SessionNames
    /\ InitAgent

SpecCfg == InitCfg /\ [][Next]_vars

TypeOK ==
    /\ pc \in {"idle", "L177", "L179", "L180", "L183", "L188", "L206",
               "L212", "L214", "L215", "L216", "L256", "L257", "L233"}
    /\ outcome \in {"none", "running", "returned", "raised"}
    /\ now \in Nat
    /\ runs \in 0..MaxRuns
    /\ ctx \in {"out", "body", "closed"}


\* ------------------------------------------------------- reading the trace
\* the positions of the entries of kind k for event ev
Pos(k, ev) == {i \in 1..Len(trace) : trace[i].k = k /\ trace[i].ev = ev}

\* the positions of the entries of kind k
PosOf(k) == {i \in 1..Len(trace) : trace[i].k = k}

\* the events whose method was called on observer i, in order
DeliveredTo(i) ==
    LET sel == SelectSeq(trace, LAMBDA e : e.k = "deliver" /\ e.obs = i)
    IN  [j \in 1..Len(sel) |-> sel[j].ev]

\* a run() was called and has ended
Ended == pc = "idle" /\ runs > 0

\* the last run() returned normally
Completed == Ended /\ outcome = "returned"

\* failures that come from outside run(): an observer, the driver, the disk,
\* an interrupt
EnvFaults ==
    {"ObserverError", "DriverError", "OSError", "ValueError:format",
     "KeyboardInterrupt"}

\* the errors that say no session is active
UsageErrors == {"AssertionError:session", "ValueError:session"}

\* ------------------------------------------------------------------ claims
\* C1: every Run record assembled by run(), handed to observe_once (and so
\* part of the report) or to onRunEnd, has
\* startTime <= treatment_start <= treatment_end <= endTime.
RunRecords ==
    ({run_data} \cup {trace[i].run : i \in Pos("notify", "onRunEnd")}
       \cup {trace[i].rep.metadata.run : i \in PosOf("persist")}
       \cup {trace[i].rep.metadata.run : i \in Pos("notify", "onReport")})
    \ {NoRun}

C1_TimingInvariant ==
    \A r \in RunRecords :
        /\ r.startTime <= r.treatment_start
        /\ r.treatment_start <= r.treatment_end
        /\ r.treatment_end <= r.endTime

C1_Witness ==
    /\ Completed
    /\ Pos("notify", "onRunEnd") # {}
    /\ run_data.startTime < run_data.treatment_start
    /\ run_data.treatment_start < run_data.treatment_end
    /\ run_data.treatment_end < run_data.endTime

\* C2 (as claimed): with a window configured, a run() that returns has
\* called on every observer, once each and in this order, the methods it
\* implements among onLeftWindowStart, onLeftWindowEnd, onTreatmentStart,
\* onTreatmentEnd, onRightWindowStart, onRightWindowEnd, onReport, onRunEnd.
ClaimedOrder ==
    <<"onLeftWindowStart", "onLeftWindowEnd", "onTreatmentStart",
      "onTreatmentEnd", "onRightWindowStart", "onRightWindowEnd",
      "onReport", "onRunEnd">>

C2_ClaimedEventOrder ==
    (Completed /\ window # NoWindow) =>
        \A i \in 1..Len(observers) :
            DeliveredTo(i) =
                SelectSeq(ClaimedOrder,
                          LAMBDA ev : ev \in KindMethods(observers[i]))

\* C3: onReport is notified at most once per run and exactly once in a run
\* that returns, only after a persist that succeeded, with the report that
\* was persisted; after a failed persist it is not notified.
C3_ReportAfterPersist ==
    /\ Cardinality(Pos("notify", "onReport")) <= 1
    /\ Completed => Cardinality(Pos("notify", "onReport")) = 1
    /\ \A i \in Pos("notify", "onReport") :
          \E j \in Pos("persist", "ok") :
              j < i /\ trace[j].rep = trace[i].rep /\ trace[i].rep = rep
    /\ Pos("persist", "failed") # {} => Pos("notify", "onReport") = {}

C3_Witness ==
    /\ Completed
    /\ Pos("notify", "onReport") # {}
    /\ Pos("deliver", "onReport") # {}
    /\ DOMAIN rep.data # {}

\* C4: onRunEnd is notified at most once per run and exactly once in a run
\* that returns, after onReport of the run, with the Run record of the
\* persisted report's metadata; when persist fails or an observer raises
\* in onReport it is not notified.
C4_RunEndAfterReport ==
    /\ Cardinality(Pos("notify", "onRunEnd")) <= 1
    /\ Completed => Cardinality(Pos("notify", "onRunEnd")) = 1
    /\ \A i \in Pos("notify", "onRunEnd") :
          /\ \E j \in Pos("notify", "onReport") :
                j < i /\ trace[j].rep.metadata.run = trace[i].run
          /\ \E j \in Pos("persist", "ok") :
                j < i /\ trace[j].rep.metadata.run = trace[i].run
    /\ (Pos("persist", "failed") # {} \/ Pos("raise", "onReport") # {})
          => Pos("notify", "onRunEnd") = {}

C4_Witness ==
    /\ Completed
    /\ Pos("deliver", "onRunEnd") # {}
    /\ run_data.user_data = "{users:10}"

\* C5: a run() called while no session is active raises the usage error
\* and has notified nobody, slept nowhere, called no driver, persisted
\* nothing.
C5_NoSessionNoRun ==
    (runs > 0 /\ session = None) =>
        /\ pc = "idle"
        /\ outcome = "raised"
        /\ error \in UsageErrors
        /\ trace = <<>>

C5_Witness ==
    /\ runs > 0
    /\ session = None
    /\ outcome = "raised"
    /\ error \in UsageErrors
    /\ window # NoWindow
    /\ observers # <<>>

\* C6 (as claimed): run() in timer mode with no window and an active session
\* raises the error of the mode check (the assertion on the window) before
\* anything is notified or slept.
C6_TimerNeedsWindow ==
    [][(pc = "idle" /\ session # None /\ mode = "timer" /\ window = NoWindow
          /\ runs' = runs + 1)
        => (outcome' = "raised" /\ error' = "AssertionError:window"
              /\ trace' = <<>>)]_vars

\* C7: run() in trigger mode without a trigger function raises before any
\* notification and any sleep, with or without a window.
C7_TriggerNeedsFunction ==
    (runs > 0 /\ mode = "trigger" /\ trigger = None) =>
        /\ pc = "idle"
        /\ outcome = "raised"
        /\ trace = <<>>

C7_Witness ==
    /\ runs > 0
    /\ mode = "trigger"
    /\ trigger = None
    /\ session # None
    /\ window # NoWindow
    /\ error = "ValueError:trigger"


\* the treatment driver of the run is usable: a trigger function in trigger
\* mode; in module mode no trigger function, and a loaded module with a
\* callable trigger
ValidDriver ==
    \/ mode = "trigger" /\ trigger # None
    \/ /\ mode = "module"
       /\ trigger = None
       /\ module_trigger \in DOMAIN modules
       /\ HasCallableTrigger(modules[module_trigger])

\* the last run() was called with a session and nothing outside run() failed
NoOutsideFault == error \notin (EnvFaults \cup UsageErrors)

\* exactly one driver call, after onTreatmentStart and before onTreatmentEnd
DriverOnceInTreatment ==
    /\ Cardinality(PosOf("driver")) = 1
    /\ \A d \in PosOf("driver") :
          /\ \E i \in Pos("notify", "onTreatmentStart") : i < d
          /\ \E i \in Pos("notify", "onTreatmentEnd") : d < i

\* the names run() gives the window events, and the protocol's names
WindowEvents ==
    {"onLeftStart", "onLeftEnd", "onRightStart", "onRightEnd",
     "onLeftWindowStart", "onLeftWindowEnd", "onRightWindowStart",
     "onRightWindowEnd"}

\* C8 (as claimed): in trigger and module mode the window is optional: a
\* run() with an active session, no window and a valid driver returns,
\* having called the driver once between onTreatmentStart and
\* onTreatmentEnd, notified no window event, slept in no window and
\* persisted a report.
C8_WindowOptional ==
    (Ended /\ window = NoWindow /\ ValidDriver /\ NoOutsideFault) =>
        /\ outcome = "returned"
        /\ DriverOnceInTreatment
        /\ \A i \in PosOf("notify") : trace[i].ev \notin WindowEvents
        /\ PosOf("sleep") = {}
        /\ Pos("persist", "ok") # {}

\* C9 (as claimed): in module mode run() raises before any notification
\* or sleep when module_trigger names no loaded module or a module without
\* a callable trigger; otherwise the module's trigger is called exactly
\* once, between onTreatmentStart and onTreatmentEnd, and run() returns.
C9_ModuleTrigger ==
    (Ended /\ mode = "module" /\ trigger = None) =>
        IF ValidDriver
        THEN NoOutsideFault => (outcome = "returned" /\ DriverOnceInTreatment)
        ELSE outcome = "raised" /\ trace = <<>>

\* C10: in trigger and module mode the user_data of the Run record of a
\* run() that returned is what the driver returned, and the driver was
\* called exactly once; no run calls it twice.
C10_UserDataIsDriverReturn ==
    /\ Cardinality(PosOf("driver")) <= 1
    /\ (Completed /\ mode \in {"trigger", "module"}) =>
          /\ Cardinality(PosOf("driver")) = 1
          /\ \A d \in PosOf("driver") :
                /\ run_data.user_data = trace[d].ret
                /\ \A i \in Pos("notify", "onRunEnd") :
                      trace[i].run.user_data = trace[d].ret
                /\ \A i \in Pos("persist", "ok") :
                      trace[i].rep.metadata.run.user_data = trace[d].ret

C10_Witness ==
    /\ Completed
    /\ mode = "module"
    /\ PosOf("driver") # {}
    /\ run_data.user_data = "{users:10}"


\* C11 (as claimed): run() with mode continuous and an active session
\* raises a not-implemented error, which is not the error of an unknown
\* mode, and has notified nobody, slept nowhere and persisted nothing.
C11_ContinuousNotImplemented ==
    [][(pc = "idle" /\ session # None /\ mode = "continuous"
          /\ runs' = runs + 1)
        => (outcome' = "raised" /\ error' = "NotImplementedError"
              /\ error' # "ValueError:mode" /\ trace' = <<>>)]_vars


\* ------------------------------------------------------- reading the slog
\* the positions in slog of the entries of kind k for event ev
SPos(k, ev) == {i \in 1..Len(slog) : slog[i].k = k /\ slog[i].ev = ev}

\* the calls of run() made inside the with block of start_session
RunsInSession == SPos("run", "body")

\* onSetup and onTeardown were each notified once, around the runs of the
\* session
SetupAndTeardownBracketRuns ==
    /\ Cardinality(SPos("notify", "onSetup")) = 1
    /\ Cardinality(SPos("notify", "onTeardown")) = 1
    /\ \A m \in RunsInSession :
          /\ \A i \in SPos("notify", "onSetup") : i < m
          /\ \A i \in SPos("notify", "onTeardown") : m < i

QueriedOk ==
    {m \in Measurements :
        \E i \in Pos("query", m) : trace[i].ret = "ok"}
C13_ServiceErrorsSkipped ==
    /\ error # "ServiceException"
    /\ Pos("report", "ok") # {} =>
          /\ \A m \in Measurements : Cardinality(Pos("query", m)) = 1
          /\ pc # "L256" => Cardinality(PosOf("persist")) = 1
          /\ \A i \in PosOf("persist") :
                /\ DOMAIN trace[i].rep.data = QueriedOk
                /\ \A q \in PosOf("query") : q < i
          /\ (Pos("persist", "ok") # {} /\ pc \notin {"L256", "L257"}) =>
                \E i \in Pos("notify", "onReport") :
                    DOMAIN trace[i].rep.data = QueriedOk
C13_Witness ==
    /\ Completed
    /\ \E i \in Pos("query", "cpu") : trace[i].ret = "ServiceException"
    /\ \E i \in Pos("query", "power") : trace[i].ret = "ok"
    /\ \E i \in Pos("notify", "onReport") : DOMAIN trace[i].rep.data = {"power"}
    /\ Pos("persist", "ok") # {}

\* C14: with no observer registered a notification calls nothing and never
\* raises, for every event name, the names outside the SMAObserver protocol
\* included: it leaves the configuration, the registry and the session of
\* the agent as they were, and the run goes on.
NotifiedInRun ==
    /\ pc # "idle"
    /\ Len(trace') = Len(trace) + 1
    /\ trace'[Len(trace')].k = "notify"
C14_EmptyRegistryNoOp ==
    /\ [](observers = <<>> =>
            /\ PosOf("deliver") = {} /\ PosOf("raise") = {}
            /\ \A i \in 1..Len(slog) : slog[i].k \notin {"deliver", "raise"}
            /\ error # "ObserverError")
    /\ [][(observers = <<>> /\ NotifiedInRun) =>
            /\ UNCHANGED <<cfgvars, observers, session, trigger, runs,
                           slog, ctx>>
            /\ outcome' # "raised"]_vars
C14_Witness ==
    /\ observers = <<>>
    /\ Completed
    /\ Pos("notify", "onLeftStart") # {}
    /\ Pos("notify", "onRunEnd") # {}
    /\ \E i \in 1..Len(slog) : slog[i].k = "notify" /\ slog[i].ev = "onSetup"

\* C15: a notification calls the method of the event on every registered
\* observer that has it, in registration order, and passes over the
\* observers that lack it: when nobody raises, the calls that follow a
\* notification are exactly the observers having the method, in the order
\* of the registry.
CallsAfter(i) ==
    LET n == CHOOSE n \in 0..(Len(trace) - i) :
                 /\ \A l \in 1..n : trace[i + l].k = "deliver"
                 /\ (i + n = Len(trace) \/ trace[i + n + 1].k # "deliver")
    IN  [l \in 1..n |-> trace[i + l].obs]
RaisedAt(i) ==
    LET e == i + Len(CallsAfter(i)) + 1
    IN  e <= Len(trace) /\ trace[e].k = "raise"
HavingMethod(ev) ==
    SelectSeq([o \in 1..Len(observers) |-> o],
              LAMBDA o : ev \in KindMethods(observers[o]))
C15_RegistrationOrder ==
    \A i \in PosOf("notify") :
        /\ \A l \in 1..Len(CallsAfter(i)) : trace[i + l].ev = trace[i].ev
        /\ ~RaisedAt(i) => CallsAfter(i) = HavingMethod(trace[i].ev)
C15_Witness ==
    /\ Len(observers) = 2
    /\ "onLeftStart" \notin KindMethods(observers[1])
    /\ \E i \in Pos("notify", "onLeftStart") : CallsAfter(i) = <<2>>
    /\ \E i \in Pos("notify", "onTreatmentStart") : CallsAfter(i) = <<1, 2>>

\* C16: when an observer raises while handling an event notified from
\* run(), the error leaves run(): the observers registered after it are not
\* called for that event, no later event of the run is notified, and no
\* report of the run is persisted.
RaiseEndsRun(i) ==
    /\ i = Len(trace)
    /\ pc = "idle" /\ outcome = "raised" /\ error = "ObserverError"
    /\ \A l \in 1..Len(trace) :
          (trace[l].k = "deliver" /\ trace[l].ev = trace[i].ev)
              => trace[l].obs <= trace[i].obs
C16_ObserverRaiseAborts ==
    \A i \in PosOf("raise") :
        RaiseEndsRun(i) /\ PosOf("persist") = {} /\ PosOf("write") = {}

\* C16 as the code has it: the same, but onReport and onRunEnd are notified
\* after persist, so a raise in one of them leaves the persisted report.
AfterPersistEvents == {"onReport", "onRunEnd"}
C16_ObserverRaiseAbortsAmended ==
    \A i \in PosOf("raise") :
        /\ RaiseEndsRun(i)
        /\ trace[i].ev \notin AfterPersistEvents =>
              PosOf("persist") = {} /\ PosOf("write") = {}
        /\ trace[i].ev \in AfterPersistEvents => Pos("persist", "ok") # {}
C16_Witness ==
    /\ Len(observers) = 2
    /\ \E i \in Pos("raise", "onTreatmentStart") :
          /\ trace[i].obs = 1
          /\ "onTreatmentStart" \in KindMethods(observers[2])
    /\ outcome = "raised"

\* C17: loading the modules is all-or-fail: once the agent is constructed,
\* every moduleId of the configuration has its instance in `modules` and
\* that instance is registered as an observer.
C17_LoadAllOrFail ==
    /\ DOMAIN modules = DOMAIN module_config
    /\ \A id \in DOMAIN modules :
          \E o \in 1..Len(observers) : observers[o] = modules[id]

\* C18: a report whose substituted location is absolute or has a `..`
\* segment is refused with a path-safety error before any directory is made
\* or file written and before any measurement is queried; the template
\* "../escape/${runHash}" never leads to a write.
Unsafe(parts) ==
    \/ Len(parts) >= 2 /\ parts[1] = ""
    \/ \E i \in 1..Len(parts) : parts[i] = ".."
ReportBuilt == \E i \in PosOf("report") : TRUE
C18_UnsafeLocationRejected ==
    /\ (ReportBuilt
          /\ Unsafe(SubstituteLocation(ReportMetadata(session, run_data)))) =>
          /\ PosOf("query") = {} /\ PosOf("write") = {} /\ PosOf("persist") = {}
          /\ Pos("report", "ok") = {}
          /\ outcome = "raised" /\ error = "ValueError:location"
    /\ location = EscapeLocation => PosOf("write") = {}
C18_Witness ==
    /\ location = EscapeLocation
    /\ Pos("report", "ValueError:location") # {}
    /\ Pos("notify", "onRightEnd") # {}
    /\ error = "ValueError:location"

\* C19: persist writes manifest.json last: every data file of the report,
\* session.json, run.json and the copy of the config file (when there is
\* one to copy) are written before it, and when one of these earlier
\* operations fails this persist writes no manifest.json.
WrittenOk(f, before) ==
    \E j \in Pos("write", f) : j < before /\ trace[j].ret = "ok"
DataFileNames(r) == {"data/" \o m \o "." \o format : m \in DOMAIN r.data}
C19_ManifestLast ==
    /\ \A i \in Pos("write", "manifest.json") :
          /\ \A j \in PosOf("write") : j <= i /\ (j < i => trace[j].ret = "ok")
          /\ \A f \in DataFileNames(rep) \cup {"session.json", "run.json"} :
                WrittenOk(f, i)
          /\ config_file => WrittenOk("config.yaml", i)
    /\ (\E j \in PosOf("write") :
           trace[j].ret = "failed" /\ trace[j].ev # "manifest.json") =>
          Pos("write", "manifest.json") = {}
    /\ error = "ValueError:format" => Pos("write", "manifest.json") = {}
C19_Witness ==
    /\ \E j \in Pos("write", "run.json") : trace[j].ret = "failed"
    /\ \E j \in Pos("write", "data/power.csv") : trace[j].ret = "ok"
    /\ error = "OSError"
    /\ Pos("write", "manifest.json") = {}

\* C20: whenever manifest.json has been written to a report location, every
\* file the manifest names has been written there: the data files, and the
\* session, run and config files of its `files` entry.
ManifestNames(r) ==
    DataFileNames(r) \cup {"session.json", "run.json", "config.yaml"}
C20_ManifestFilesExist ==
    \A i \in Pos("write", "manifest.json") :
        trace[i].ret = "ok" =>
            \A f \in ManifestNames(rep) : WrittenOk(f, i)

\* C27: when a window sleep or the treatment driver is interrupted, run()
\* ends with the exception and keeps nothing of the run: no Run record is
\* assembled, no measurement is queried, nothing is persisted, onReport and
\* onRunEnd are not notified, and onTreatmentEnd is not notified when it was
\* the driver that was interrupted.
Interrupts == {"KeyboardInterrupt", "DriverError"}
InDriverSleep ==
    /\ mode = "timer"
    /\ Pos("notify", "onTreatmentStart") # {}
    /\ \A i \in PosOf("sleep") : \A j \in Pos("notify", "onTreatmentStart") : i < j
C27_InterruptKeepsNothing ==
    (pc = "idle" /\ outcome = "raised" /\ error \in Interrupts) =>
        /\ run_data = NoRun /\ rep = NoReport
        /\ PosOf("report") = {} /\ PosOf("query") = {}
        /\ PosOf("write") = {} /\ PosOf("persist") = {}
        /\ Pos("notify", "onReport") = {} /\ Pos("notify", "onRunEnd") = {}
        /\ (error = "DriverError" \/ InDriverSleep) =>
              Pos("notify", "onTreatmentEnd") = {}
C27_Witness ==
    /\ pc = "idle" /\ outcome = "raised" /\ error = "DriverError"
    /\ Pos("deliver", "onTreatmentStart") # {}
    /\ PosOf("sleep") # {}

\* C28: persist of a report whose configured format is not csv fails and
\* writes no manifest.json, whatever the observations of the report are,
\* the empty set included.
C28_UnsupportedFormatFails ==
    format # "csv" =>
        /\ Pos("persist", "ok") = {}
        /\ \A i \in Pos("write", "manifest.json") : trace[i].ret # "ok"

\* C21: load_from_location chooses the decoder by the version of the
\* manifest alone: 1.0 is read by the 1.0 decoder, 1.1 by the 1.1 decoder,
\* any other version by the 1.0 decoder, and in each case a Report is
\* returned when the files the manifest names can be read.
Loaded == result.op = "load" /\ Exists(disk, result.at)
ManifestAt(p) == CHOOSE m \in disk[p].manifest : TRUE
Readable(p) ==
    LET m == ManifestAt(p)
    IN  /\ disk[p].session # {} /\ disk[p].run # {}
        /\ \A n \in DOMAIN m.data_files :
              m.data_files[n].filename \in DOMAIN disk[p].data
C21_VersionDispatch ==
    (Loaded /\ disk[result.at].manifest # {} /\ Readable(result.at)) =>
        /\ result.err = "ok" /\ Len(result.reports) = 1
        /\ result.decoder =
              (IF ManifestAt(result.at).version = "1.1" THEN "1.1" ELSE "1.0")
C21_Witness ==
    /\ Loaded /\ disk[result.at].manifest # {}
    /\ ManifestAt(result.at).version = "2.0"
    /\ result.decoder = "1.0" /\ Len(result.reports) = 1
    /\ DOMAIN result.reports[1].data = {"cpu", "power"}

\* C22: load_from_location fails, returning no Report, when the location
\* does not exist or holds no manifest.json, whatever else the directory
\* holds: it never rebuilds a report from the files it finds.
C22_NoManifestNoLoad ==
    (result.op = "load"
        /\ (~Exists(disk, result.at) \/ disk[result.at].manifest = {})) =>
        /\ result.reports = <<>>
        /\ result.err = (IF Exists(disk, result.at) THEN "ValueError:manifest"
                         ELSE "FileNotFoundError")
C22_Witness ==
    /\ Loaded /\ disk[result.at].manifest = {}
    /\ disk[result.at].session # {} /\ disk[result.at].run # {}
    /\ DOMAIN disk[result.at].data # {}
    /\ result.err = "ValueError:manifest"

\* C23: load_from_config is never ended by one bad directory: it returns,
\* and its list holds exactly one Report for every matched directory that
\* loads, the paths that are no directory, have no manifest or fail to load
\* left out.
Matched == Glob(disk, GlobPattern(result.arg))
Loadable ==
    {p \in Matched : disk[p].isdir /\ LoadFromLocation(disk, p).err = "ok"}
C23_BadDirectorySkipped ==
    result.op = "loadall" =>
        /\ result.err = "ok"
        /\ Len(result.reports) = Cardinality(Loadable)
        /\ {result.reports[i] : i \in 1..Len(result.reports)} =
              {LoadFromLocation(disk, p).report : p \in Loadable}
C23_Witness ==
    /\ result.op = "loadall" /\ Len(result.reports) >= 1
    /\ \E p \in Matched : ~disk[p].isdir \/ disk[p].manifest = {}
    /\ Matched # Loadable

\* C24: a report persisted as csv and then loaded from the location persist
\* returned comes back with the same session name, the same runHash, the
\* four times of the run cut to whole seconds, and the measurement names of
\* the persisted observations, each with the rows and columns the manifest
\* records.
Truncated(t) == TicksPerSecond * (t \div TicksPerSecond)
RoundTrip(r, l, m) ==
    /\ l.metadata.session = r.metadata.session
    /\ l.metadata.run.runHash = r.metadata.run.runHash
    /\ l.metadata.run.startTime = Truncated(r.metadata.run.startTime)
    /\ l.metadata.run.endTime = Truncated(r.metadata.run.endTime)
    /\ l.metadata.run.treatment_start =
          Truncated(r.metadata.run.treatment_start)
    /\ l.metadata.run.treatment_end = Truncated(r.metadata.run.treatment_end)
    /\ DOMAIN l.data = DOMAIN r.data
    /\ \A n \in DOMAIN l.data :
          /\ l.data[n].rows = m.data_files[n].rows
          /\ l.data[n].columns = m.data_files[n].columns
C24_RoundTrip ==
    [][(/\ format = "csv"
        /\ result.op = "persist" /\ result.err = "ok"
        /\ result'.op = "load" /\ result'.at = result.at) =>
           /\ result'.err = "ok" /\ Len(result'.reports) = 1
           /\ RoundTrip(result.reports[1], result'.reports[1],
                        ManifestAt(result.at))]_vars
C24_Witness ==
    /\ result.op = "load" /\ result.err = "ok" /\ format = "csv"
    /\ \E r \in StoreReports :
          /\ DOMAIN r.data = {"cpu", "power"}
          /\ r.metadata.run.startTime # Truncated(r.metadata.run.startTime)
          /\ result.at = SubstituteLocation(r.metadata)
          /\ disk[result.at] =
                PersistTo(NoFiles, r, 0,
                          ManifestAt(result.at).created_at)[result.at]
          /\ result.reports[1] # r
          /\ RoundTrip(r, result.reports[1], ManifestAt(result.at))

\* C25: persisting the report that was just persisted, to the same
\* location, succeeds and leaves manifest.json, session.json, run.json and
\* the data files as they were, the created_at of the manifest excepted.
SameButCreatedAt(a, b) ==
    /\ a.session = b.session /\ a.run = b.run /\ a.data = b.data
    /\ {[m EXCEPT !.created_at = 0] : m \in a.manifest} =
          {[m EXCEPT !.created_at = 0] : m \in b.manifest}
C25_PersistIdempotent ==
    [][(/\ result.op = "persist" /\ result.err = "ok"
        /\ result'.op = "persist" /\ result'.fail = 0
        /\ result'.reports = result.reports) =>
           /\ result'.err = "ok" /\ result'.at = result.at
           /\ SameButCreatedAt(disk'[result.at], disk[result.at])]_vars
C25_Witness ==
    /\ result.op = "persist" /\ result.err = "ok"
    /\ result.n = 2 /\ now = 2 /\ DOMAIN disk = {result.at}
    /\ DOMAIN result.reports[1].data = {"cpu", "power"}
    /\ ManifestAt(result.at).created_at = 1
    /\ disk[result.at] = PersistTo(NoFiles, result.reports[1], 0, 1)[result.at]

\* C26: a directory loads to the same Report whether its manifest says
\* version 1.0 or 1.1: equal session, equal run, equal measurement names and
\* equal tables.
VersionSet(p, v) ==
    [disk EXCEPT ![p].manifest = {[m EXCEPT !.version = v] : m \in @}]
C26_DecodersAgree ==
    \A p \in DOMAIN disk :
        disk[p].manifest # {} =>
            LET a == LoadFromLocation(VersionSet(p, "1.0"), p)
                b == LoadFromLocation(VersionSet(p, "1.1"), p)
            IN  /\ a.err = b.err
                /\ a.report = b.report
                /\ a.err = "ok" => a.decoder = "1.0" /\ b.decoder = "1.1"
C26_Witness ==
    /\ Loaded /\ disk[result.at].manifest # {}
    /\ ManifestAt(result.at).version = "1.0"
    /\ result.decoder = "1.0" /\ Len(result.reports) = 1
    /\ DOMAIN result.reports[1].data = {"cpu", "power"}
    /\ LoadFromLocation(VersionSet(result.at, "1.1"), result.at).decoder = "1.1"
    /\ LoadFromLocation(VersionSet(result.at, "1.1"), result.at).report =
          result.reports[1]

\* C29: a fetch without the overwrite option leaves every data file that is
\* in a report location as it is.
C29_FetchKeepsData ==
    [][(result'.op = "fetch" /\ result'.arg = FALSE) =>
           \A p \in DOMAIN disk : \A f \in DOMAIN disk[p].data :
               disk'[p].data[f] = disk[p].data[f]]_vars

\* C30: load_from_config returns a report directory with a valid manifest
\* if and only if its path is the location template with every variable
\* replaced by some text, an overridden variable by its override.
TemplateMatches(p, ov) ==
    /\ Len(p) = Len(location)
    /\ \A i \in 1..Len(p) :
          LET pat == GlobPattern(ov)[i]
              stars == {j \in 1..Len(pat) : pat[j] = "*"}
          IN  \E c \in [stars -> GlobValues] :
                  Concat([j \in 1..Len(pat) |->
                             IF j \in stars THEN c[j] ELSE pat[j]]) = p[i]
C30_ReturnedIffMatches ==
    result.op = "loadall" =>
        \A p \in DOMAIN disk :
            (disk[p].isdir /\ LoadFromLocation(disk, p).err = "ok") =>
                ((\E i \in 1..Len(result.reports) :
                      result.reports[i] = LoadFromLocation(disk, p).report)
                 <=> TemplateMatches(p, result.arg))

\* C31: no step of run() or of observe_once changes the registry of
\* observers or the modules lookup: both are after any number of runs what
\* they were before the first.
InRun == runs' # runs \/ pc # "idle"
C31_RunKeepsRegistry ==
    [][InRun => (observers' = observers /\ modules' = modules)]_vars
C31_Witness ==
    /\ Completed /\ runs = MaxRuns
    /\ DOMAIN modules # {}
    /\ Len(observers) > Len(LoadedObservers(modules))
    /\ Pos("deliver", "onRunEnd") # {}

\* C32: of orchestrators constructed without an observers list, each
\* delivers the events of its run only to the observers registered on it,
\* by its load_modules or by register_sma_observer.
Elements(seq) == {seq[k] : k \in 1..Len(seq)}
C32_RegistriesIndependent ==
    \A i \in 1..Len(agents.made) :
        (/\ agents.notified.by = i
         /\ \A j \in 1..Len(agents.made) : ~agents.made[j].explicit) =>
            Elements(agents.notified.to) \subseteq
                Elements(agents.made[i].registered)

\* C33: once a session opened with start_session is closed and no observer
\* raised, every observer that has the methods was called with
\* onSessionStart exactly once and with onSessionEnd exactly once, the
\* latter after the last run of the session and before onTeardown.
SDelivered(ev, i) ==
    {k \in SPos("deliver", ev) : slog[k].obs = i}
C33_SessionEventsOnce ==
    (ctx = "closed" /\ \A k \in 1..Len(slog) : slog[k].k # "raise") =>
        /\ \A i \in Implementers("onSessionStart") :
              Cardinality(SDelivered("onSessionStart", i)) = 1
        /\ \A i \in Implementers("onSessionEnd") :
              /\ Cardinality(SDelivered("onSessionEnd", i)) = 1
              /\ \A k \in SDelivered("onSessionEnd", i) :
                    /\ \A m \in RunsInSession : m < k
                    /\ \A t \in SPos("notify", "onTeardown") : k < t

\* C34: a run() called after the session was closed, onTeardown notified,
\* fails with the usage error and notifies nothing.
RunAfterClose ==
    \E k \in SPos("run", "closed") :
        /\ slog[k].r = runs
        /\ \E t \in SPos("notify", "onTeardown") : t < k
C34_NoRunAfterClose ==
    RunAfterClose =>
        /\ pc = "idle"
        /\ outcome = "raised"
        /\ error \in UsageErrors
        /\ trace = <<>>

\* C35: onSessionEnd and onTeardown reach an observer only when onSetup and
\* onSessionStart were notified without a raise: after an observer raised
\* in onSetup or onSessionStart inside start_session none of the two is
\* delivered.
C35_EndOnlyAfterStart ==
    (SPos("raise", "onSetup") \cup SPos("raise", "onSessionStart") # {}) =>
        /\ SPos("deliver", "onSessionEnd") = {}
        /\ SPos("deliver", "onTeardown") = {}

\* C36: every name the measurments accessor of a report lists has a table in
\* the report: a measurement whose query failed is not listed.
C36_ListedHaveTables ==
    rep # NoReport =>
        \A n \in Measurments(rep) : GetItem(rep, n) = "ok"

\* C37: the location of a Report that load_from_location returned is the
\* directory it was loaded from, whatever fields of the metadata the
\* location template is built from.
C37_LoadedLocationIsDirectory ==
    (result.op = "load" /\ result.err = "ok") =>
        SubstituteLocation(result.reports[1].metadata) = result.at

\* C38: the runs handed to persist have startTime <= treatment_start <=
\* treatment_end <= endTime, and so has the run of every report loaded back,
\* its times cut to whole seconds: neither its duration nor the duration of
\* its treatment is negative.
Ordered(run) ==
    /\ run.startTime <= run.treatment_start
    /\ run.treatment_start <= run.treatment_end
    /\ run.treatment_end <= run.endTime
C38_TimingSurvivesPersistence ==
    (result.op \in {"load", "loadall"}
        /\ \A r \in StoreReports : Ordered(r.metadata.run)) =>
        \A i \in 1..Len(result.reports) :
            LET run == result.reports[i].metadata.run
            IN  /\ Ordered(run)
                /\ run.endTime - run.startTime >= 0
                /\ run.treatment_end - run.treatment_start >= 0
C38_Witness ==
    /\ result.op = "load" /\ result.err = "ok"
    /\ \E r \in StoreReports :
          /\ Ordered(r.metadata.run)
          /\ r.metadata.run.runHash = result.reports[1].metadata.run.runHash
          /\ r.metadata.run.startTime # Truncated(r.metadata.run.startTime)
          /\ r.metadata.run.treatment_end
                # Truncated(r.metadata.run.treatment_end)
          /\ result.reports[1].metadata.run.treatment_end =
                Truncated(r.metadata.run.treatment_end)
          /\ result.reports[1].metadata.run.treatment_start <
                result.reports[1].metadata.run.treatment_end

\* C39: a load reads the measurements the manifest names and no other: a
\* report loaded right after a persist to its location holds exactly the
\* measurements of that persist, whatever data files an earlier persist
\* left in data/.
LoadedOk == result.op = "load" /\ result.err = "ok"
C39_ManifestOnly ==
    /\ [](LoadedOk =>
             DOMAIN result.reports[1].data =
                 DOMAIN ManifestAt(result.at).data_files)
    /\ [][(/\ result.op \in {"persist", "fetch"} /\ result.err = "ok"
           /\ result.reports # <<>>
           /\ result'.op = "load"
           /\ result'.at = SubstituteLocation(result.reports[1].metadata)) =>
              /\ result'.err = "ok"
              /\ DOMAIN result'.reports[1].data =
                    DOMAIN result.reports[1].data]_vars
C39_Witness ==
    /\ LoadedOk
    /\ DOMAIN result.reports[1].data = {"cpu"}
    /\ "power.csv" \in DOMAIN disk[result.at].data
====
